---- MODULE Spec2Model ----
(***************************************************************************)
(* SchnauzerUI: the statement interpreter (src/src/interpreter.rs) and its *)
(* variable store (src/src/environment.rs).                                *)
(*                                                                         *)
(* The interpreter keeps a stack of pending statements, a buffer of the    *)
(* statements seen since the last catch-error line, and the two flags      *)
(* had_error and tried_again.  One step of the model is one iteration of   *)
(* the `while let Some(stmt) = self.stmts.pop()` loop of                   *)
(* Interpreter::interpret, including everything execute_stmt calls.        *)
(*                                                                         *)
(* The browser driver is the environment: every command that talks to it   *)
(* draws one Outcome (did the call chain succeed, which element did it     *)
(* end on) from an oracle chosen nondeterministically for the statement.   *)
(***************************************************************************)
EXTENDS Integers, Sequences, FiniteSets, TLC

(***************************************************************************)
(* Bounds of the model.                                                    *)
(***************************************************************************)
\* longest script handed to Interpreter::new
MaxScriptLen == 3
\* the model keeps the topmost MaxStack pending statements (see Window)
MaxStack == 6
\* the history kept per script line and the screenshot count saturate here
MaxExecs == 3

(***************************************************************************)
(* parser.rs: CmdParam, Cmd, CmdStmt (a non-empty chain, here a sequence), *)
(* Stmt.  Every statement record has the same fields; `line` is the index  *)
(* of the statement in the script (0 for the statement the interpreter     *)
(* makes up itself).                                                       *)
(***************************************************************************)
NoParam == [t |-> "None", v |-> ""]
String(s) == [t |-> "String", v |-> s]
Variable(n) == [t |-> "Variable", v |-> n]

NoCmd == [op |-> "None", cp |-> NoParam]
Locate(cp) == [op |-> "Locate", cp |-> cp]
LocateNoScroll(cp) == [op |-> "LocateNoScroll", cp |-> cp]
Type(cp) == [op |-> "Type", cp |-> cp]
Click == [op |-> "Click", cp |-> NoParam]
Refresh == [op |-> "Refresh", cp |-> NoParam]
TryAgain == [op |-> "TryAgain", cp |-> NoParam]
Screenshot == [op |-> "Screenshot", cp |-> NoParam]
ReadTo(n) == [op |-> "ReadTo", cp |-> Variable(n)]
Url(cp) == [op |-> "Url", cp |-> cp]
Press(cp) == [op |-> "Press", cp |-> cp]
Chill(cp) == [op |-> "Chill", cp |-> cp]
Select(cp) == [op |-> "Select", cp |-> cp]
DragTo(cp) == [op |-> "DragTo", cp |-> cp]
Upload(cp) == [op |-> "Upload", cp |-> cp]
AcceptAlert == [op |-> "AcceptAlert", cp |-> NoParam]
DismissAlert == [op |-> "DismissAlert", cp |-> NoParam]

Stmt(kind, cond, cs, cp, name, value) ==
    [kind |-> kind, cond |-> cond, cs |-> cs, cp |-> cp,
     name |-> name, value |-> value, line |-> 0]
CmdS(cs) == Stmt("Cmd", NoCmd, cs, NoParam, "", "")
IfS(condition, then_branch) == Stmt("If", condition, then_branch, NoParam, "", "")
SetVariableS(name, value) == Stmt("SetVariable", NoCmd, <<>>, NoParam, name, value)
CommentS == Stmt("Comment", NoCmd, <<>>, NoParam, "", "")
CatchErrS(cs) == Stmt("CatchErr", NoCmd, cs, NoParam, "", "")
UnderS(cp, cs) == Stmt("Under", NoCmd, cs, cp, "", "")
UnderActiveElementS(cs) == Stmt("UnderActiveElement", NoCmd, cs, NoParam, "", "")
SetTryAgainFieldToFalse == Stmt("SetTryAgainFieldToFalse", NoCmd, <<>>, NoParam, "", "")

(***************************************************************************)
(* The scripts of the model: every sequence of at most MaxScriptLen        *)
(* statements of Pool.  All of them are lines Parser::parse_stmt accepts;  *)
(* `try-again` alone on a line is one of them (parse_stmt falls through to *)
(* parse_cmd_stmt, and parse_cmd maps the TryAgain token to Cmd::TryAgain).*)
(***************************************************************************)
VarNames == {"v"}

Pool ==
    { CmdS(<<Locate(String("a")), Click>>),
      CmdS(<<Locate(Variable("v"))>>),
      CmdS(<<TryAgain>>),
      IfS(Locate(Variable("v")), <<Click>>),
      SetVariableS("v", "a"),
      CommentS,
      CatchErrS(<<Screenshot>>),
      CatchErrS(<<Screenshot, TryAgain>>),
      UnderS(String("a"), <<Locate(String("b"))>>),
      UnderActiveElementS(<<Click>>) }

WithLines(f) == [i \in DOMAIN f |-> [f[i] EXCEPT !.line = i]]
Scripts == { WithLines(f) : f \in UNION { [1..n -> Pool] : n \in 0..MaxScriptLen } }

Reverse(q) == [i \in 1..Len(q) |-> q[Len(q) + 1 - i]]

(***************************************************************************)
(* The driver.  An Outcome answers one command's conversation with the     *)
(* browser: ok says whether the calls succeeded, el which element they     *)
(* ended on (for a locate: the element matching the locator, 0 if the page *)
(* has none; for an element command: the control a label was swapped for,  *)
(* 0 if the focused element stayed).                                       *)
(***************************************************************************)
\* the page: element e has the parent Page[e] (0: none, e is the root)
Page == <<0, 1>>
Elems == DOMAIN Page
Outcome == [ok : BOOLEAN, el : {0} \cup Elems]
\* WebElement::parent: the root has none
Parent(e) == Page[e]
\* a query from base matches descendants of base only
RECURSIVE IsUnder(_, _)
IsUnder(e, base) == Parent(e) # 0 /\ (Parent(e) = base \/ IsUnder(Parent(e), base))
ElemOf(o) == IF o.el = 0 THEN 1 ELSE o.el
TextOf(o) == IF o.el = 0 THEN "" ELSE IF o.el = 1 THEN "a" ELSE "b"

VARIABLES
    script,         \* the statements given to Interpreter::new
    stmts,          \* pending statements, next one last (Vec::pop)
    environment,    \* Environment: name -> <<>> (unset) or <<value>>
    curr_elem,      \* focused element, 0 = None
    locator,        \* last locator, <<>> = None
    had_error,
    stmts_since_last_error_handling,
    tried_again,
    screenshot_buf, \* number of screenshots held (no reporter attached)
    is_demo,
    under_element,  \* base of an under statement, 0 = None
    pc,             \* "new", "loop", "end", "done", "cut"
    result,         \* what interpret returned: "none" until it returns
    exited,         \* the loop was left by `break` (Severity::Exit)
    cut,            \* 0: stmts is whole; 1, 2: entries fell below its window
    hist,           \* per script line: results of the runs of its commands
    first,          \* per script line: the flags when it was first taken
    last,           \* what the last loop iteration did
    any_failed,     \* some statement returned an error
    unhandled,      \* an error was returned and no handler has run since
    dead_upto,      \* highest line of a catch-error reached in Normal mode
    src,            \* source text given to Scanner::from_src, a sequence of lines
    tokens,         \* what Scanner::scan returned
    parsed,         \* what Parser::parse returned
    call,           \* the last call made on the Environment and its result
    page,           \* the document the driver shows
    executor,       \* the tasks of one executor thread
    reporter        \* Option<Report>: <<>> for None, <<records>> for Some

vars == <<script, stmts, environment, curr_elem, locator, had_error,
          stmts_since_last_error_handling, tried_again, screenshot_buf, is_demo,
          under_element, pc, result, exited, cut, hist, first, last, any_failed,
          unhandled, dead_upto, src, tokens, parsed, call, page, executor,
          reporter>>

\* the variables of the scanner, the parser and the calls on the Environment
front == <<src, tokens, parsed, call>>
NoCall == [op |-> "none", name |-> "", value |-> "", before |-> <<>>, got |-> <<>>]
\* the variables of the document and of the executor
browser == <<page, executor>>
NoPage == <<>>
NoExecutor == <<>>
\* Interpreter::new(driver, stmts, is_demo, None)
NoReporter == <<>>
NoParse == [stmts |-> <<>>, printed |-> <<>>, lines |-> <<>>, state |-> "idle"]

NoLast == [line |-> 0, kind |-> "None", mode |-> FALSE, tried |-> FALSE,
           res |-> "Ok", msg |-> "", ran |-> <<>>, requeued |-> <<>>]

Sat(n) == IF n < MaxExecs THEN n + 1 ELSE MaxExecs

\* the atoms of text: the space, the double quote, the hash
Space == " "
Quote == "\""
Hash == "#"

(***************************************************************************)
(* parser.rs, the Display implementations: a statement rendered as text.   *)
(***************************************************************************)
\* impl Display for CmdParam
DisplayCmdParam(cp) ==
    IF cp.t = "String" THEN (<<Quote>> \o cp.v) \o <<Quote>> ELSE cp.v

\* impl Display for Cmd, the keyword written for each command
CmdWord(op) ==
    CASE op = "Locate" -> "locate"
      [] op = "Type" -> "type"
      [] op = "Click" -> "click"
      [] op = "Refresh" -> "refresh"
      [] op = "TryAgain" -> "try-again"
      [] op = "Screenshot" -> "screenshot"
      [] op = "ReadTo" -> "read-to"
      [] op = "Url" -> "url"
      [] op = "Press" -> "press"
      [] op = "Chill" -> "chill"
      [] op = "LocateNoScroll" -> "locate-no-scroll"
      [] op = "Select" -> "select"
      [] op = "DragTo" -> "drag-to"
      [] op = "Upload" -> "upload"
      [] op = "AcceptAlert" -> "accept-alert"
      [] op = "DismissAlert" -> "dismiss-alert"

\* impl Display for Cmd
DisplayCmd(c) ==
    IF c.cp = NoParam THEN <<CmdWord(c.op)>>
    ELSE <<CmdWord(c.op), Space>> \o DisplayCmdParam(c.cp)

\* impl Display for CmdStmt
RECURSIVE DisplayCmdStmt(_)
DisplayCmdStmt(cs) ==
    IF Len(cs) > 1
    THEN (DisplayCmd(Head(cs)) \o <<Space, "and", Space>>) \o DisplayCmdStmt(Tail(cs))
    ELSE DisplayCmd(Head(cs))

\* impl Display for IfStmt
DisplayIfStmt(s) ==
    ((<<"if", Space>> \o DisplayCmd(s.cond)) \o <<Space, "then", Space>>)
        \o DisplayCmdStmt(s.cs)

\* impl Display for SetVariableStmt
DisplaySetVariableStmt(s) ==
    ((<<"save", Space>> \o s.name) \o <<Space, "as", Space>>) \o s.value

\* impl Display for Stmt
DisplayStmt(s) ==
    CASE s.kind = "Cmd" -> DisplayCmdStmt(s.cs)
      [] s.kind = "If" -> DisplayIfStmt(s)
      [] s.kind = "SetVariable" -> DisplaySetVariableStmt(s)
      [] s.kind = "Comment" -> s.value
      [] s.kind = "CatchErr" -> <<"catch-error:", Space>> \o DisplayCmdStmt(s.cs)
      [] s.kind = "Under" ->
            ((<<"under", Space>> \o DisplayCmdParam(s.cp)) \o <<Space>>)
                \o DisplayCmdStmt(s.cs)
      [] s.kind = "UnderActiveElement" ->
            <<"under-active-element", Space>> \o DisplayCmdStmt(s.cs)
      [] s.kind = "SetTryAgainFieldToFalse" -> <<>>

(***************************************************************************)
(* interpreter.rs, one definition per method.  A method takes the          *)
(* interpreter as the record s and returns it changed; s.res is the        *)
(* RuntimeResult of the call ("Ok", or the Severity of the error) and      *)
(* s.msg the error's message.                                              *)
(***************************************************************************)
\* variant of error: a failure is Recoverable even while tried_again is set
error_always_recoverable(s, msg) ==
    [msg |-> msg, sev |-> "Recoverable"]

\* Interpreter::error
error(s, msg) ==
    [msg |-> msg, sev |-> IF s.tried_again THEN "Exit" ELSE "Recoverable"]

Fail(s, e) == [s EXCEPT !.res = e.sev, !.msg = e.msg]

\* the element of a singleton set: { f(x) : x \in {e} } names the result e of
\* a call once, as the code's `let x = e;` does
The(S) == CHOOSE x \in S : TRUE

\* the next answer of the driver
Draw(s) == s.orc[s.oi]
Drawn(s) == [s EXCEPT !.oi = @ + 1]

\* variant of set_variable: a name already set keeps its first value
env_set_variable_keeps_first(env, name, value) ==
    IF env[name] = <<>> THEN [env EXCEPT ![name] = <<value>>] ELSE env

\* Environment::set_variable
env_set_variable(env, name, value) == [env EXCEPT ![name] = <<value>>]
\* Environment::get_variable
env_get_variable(env, name) == env[name]

\* Interpreter::set_variable
set_variable(s, sv) ==
    [s EXCEPT !.environment = env_set_variable(@, sv.name, sv.value)]

\* Interpreter::get_variable
get_variable(s, name) ==
    LET got == env_get_variable(s.environment, name)
    IN  IF got # <<>>
        THEN [ok |-> TRUE, val |-> got[1], err |-> error(s, "")]
        ELSE [ok |-> FALSE, val |-> "", err |-> error(s, "Variable is not yet defined")]

\* Interpreter::resolve
resolve(s, cmd_param) ==
    IF cmd_param.t = "String"
    THEN [ok |-> TRUE, val |-> cmd_param.v, err |-> error(s, "")]
    ELSE get_variable(s, cmd_param.v)

\* Interpreter::set_curr_elem: in demo mode highlighting the element can fail
set_curr_elem(s, elem, o) ==
    IF s.is_demo /\ ~o.ok
    THEN Fail(s, error(s, "Error highlighting element"))
    ELSE [s EXCEPT !.curr_elem = elem]

\* Interpreter::locate, after the locator is resolved and stored: the search
\* from the base of an under statement, climbing to the parent when nothing
\* under the base matches, then the search of the whole document
RECURSIVE locate_from(_, _)
locate_from(s, o) ==
    IF s.under_element # 0
    THEN IF o.el # 0 /\ IsUnder(o.el, s.under_element)
         THEN set_curr_elem(s, o.el, o)
         ELSE locate_from([s EXCEPT !.under_element = Parent(@)], o)
    ELSE IF o.el # 0
         THEN set_curr_elem(s, o.el, o)
         ELSE Fail(s, error(s, "Could not locate the element"))

\* Interpreter::locate
locate(s, cp) ==
    LET r == resolve(s, cp)
    IN  IF ~r.ok
        THEN Fail(s, r.err)
        ELSE locate_from([Drawn(s) EXCEPT !.locator = <<r.val>>], Draw(s))

\* Interpreter::get_curr_elem followed by the calls a command makes on the
\* element (resolve_label may swap a label for its control)
element_action(s, msg) ==
    IF s.curr_elem = 0
    THEN Fail(s, error(s, "No element currently located. Try using the locate command"))
    ELSE LET o == Draw(s)
             s1 == [Drawn(s) EXCEPT !.curr_elem = IF o.el = 0 THEN @ ELSE o.el]
         IN  IF o.ok THEN s1 ELSE Fail(s1, error(s1, msg))

\* a call on the driver alone (refresh, goto, alerts)
driver_action(s, msg) ==
    IF Draw(s).ok THEN Drawn(s) ELSE Fail(Drawn(s), error(s, msg))

\* a command that resolves its parameter first
with_param(s, cp, msg, on_element) ==
    LET r == resolve(s, cp)
    IN  IF ~r.ok THEN Fail(s, r.err)
        ELSE IF on_element THEN element_action(s, msg) ELSE driver_action(s, msg)

\* variant of try_again: the SetTryAgainFieldToFalse marker is not pushed
try_again_without_marker(s) ==
    [s EXCEPT !.tried_again = TRUE,
              !.stmts = @ \o s.stmts_since_last_error_handling,
              !.stmts_since_last_error_handling = <<>>,
              !.requeued = @ \o s.stmts_since_last_error_handling]

\* Interpreter::try_again
try_again(s) ==
    [s EXCEPT !.tried_again = TRUE,
              !.stmts = (@ \o <<SetTryAgainFieldToFalse>>)
                            \o s.stmts_since_last_error_handling,
              !.stmts_since_last_error_handling = <<>>,
              !.requeued = @ \o s.stmts_since_last_error_handling]

\* Interpreter::screenshot
screenshot(s) ==
    IF Draw(s).ok
    THEN [Drawn(s) EXCEPT !.screenshot_buf = Sat(@)]
    ELSE Fail(Drawn(s), error(s, "Error taking screenshot."))

\* Interpreter::read_to
read_to(s, name) ==
    IF s.curr_elem = 0
    THEN Fail(s, error(s, "No element currently located. Try using the locate command"))
    ELSE LET o == Draw(s)
         IN  IF o.ok
             THEN [Drawn(s) EXCEPT !.environment = env_set_variable(@, name, TextOf(o))]
             ELSE Fail(Drawn(s), error(s, "Error getting text from element"))

\* Interpreter::execute_cmd
run_cmd(s, cmd) ==
        CASE cmd.op \in {"Locate", "LocateNoScroll"} -> locate(s, cmd.cp)
          [] cmd.op = "Type" -> with_param(s, cmd.cp, "Error typing into element", TRUE)
          [] cmd.op = "Click" -> element_action(s, "Error clicking element")
          [] cmd.op = "Refresh" -> driver_action(s, "Error refreshing page")
          [] cmd.op = "TryAgain" -> try_again(s)
          [] cmd.op = "Screenshot" -> screenshot(s)
          [] cmd.op = "ReadTo" -> read_to(s, cmd.cp.v)
          [] cmd.op = "Url" -> with_param(s, cmd.cp, "Error navigating to page.", FALSE)
          [] cmd.op = "Press" -> with_param(s, cmd.cp, "Error pressing key.", TRUE)
          [] cmd.op = "Chill" ->
                with_param(s, cmd.cp, "Could not parse time to wait as integer.", FALSE)
          [] cmd.op = "Select" -> with_param(s, cmd.cp, "Could not select text", TRUE)
          [] cmd.op = "DragTo" -> with_param(s, cmd.cp, "Error dragging element.", TRUE)
          [] cmd.op = "Upload" -> with_param(s, cmd.cp, "Error uploading file", TRUE)
          [] cmd.op = "AcceptAlert" -> driver_action(s, "Error accepting alert")
          [] cmd.op = "DismissAlert" -> driver_action(s, "Error dismissing alert")

\* execute_cmd, noting which command ran and whether it succeeded
execute_cmd(s, cmd) ==
    The({ [s1 EXCEPT !.ran = Append(@, [op |-> cmd.op, ok |-> s1.res = "Ok"])] :
          s1 \in {run_cmd(s, cmd)} })

\* variant of execute_cmd_stmt: the chain goes on after a failing command
RECURSIVE execute_cmd_stmt_goes_on(_, _)
execute_cmd_stmt_goes_on(s, cs) ==
    The({ IF Len(cs) > 1
          THEN execute_cmd_stmt_goes_on([s1 EXCEPT !.res = "Ok", !.msg = ""], Tail(cs))
          ELSE s1 :
          s1 \in {execute_cmd(s, Head(cs))} })

\* Interpreter::execute_cmd_stmt
RECURSIVE execute_cmd_stmt(_, _)
execute_cmd_stmt(s, cs) ==
    The({ IF s1.res # "Ok" THEN s1
          ELSE IF Len(cs) > 1 THEN execute_cmd_stmt(s1, Tail(cs))
          ELSE s1 :
          s1 \in {execute_cmd(s, Head(cs))} })

\* variant of execute_if_stmt: the condition's failure is returned
execute_if_stmt_propagates(s, is) ==
    The({ IF s1.res = "Ok" THEN execute_cmd_stmt(s1, is.cs) ELSE s1 :
          s1 \in {execute_cmd(s, is.cond)} })

\* variant of execute_if_stmt: the then-branch runs whatever the condition did
execute_if_stmt_always_then(s, is) ==
    The({ execute_cmd_stmt([s1 EXCEPT !.res = "Ok", !.msg = ""], is.cs) :
          s1 \in {execute_cmd(s, is.cond)} })

\* Interpreter::execute_if_stmt
execute_if_stmt(s, is) ==
    The({ IF s1.res = "Ok"
          THEN execute_cmd_stmt(s1, is.cs)
          ELSE [s1 EXCEPT !.res = "Ok", !.msg = ""] :
          s1 \in {execute_cmd(s, is.cond)} })

\* the cmd_stmt of an under statement, run with under_element set: the
\* base is cleared only when the cmd_stmt succeeded
execute_under_base(s, cs) ==
    The({ IF s2.res # "Ok" THEN s2 ELSE [s2 EXCEPT !.under_element = 0] :
          s2 \in {execute_cmd_stmt(s, cs)} })

\* Interpreter::execute_stmt, Stmt::Under
execute_under(s, stmt) ==
    The({ IF s1.res # "Ok" THEN s1
          ELSE execute_under_base([s1 EXCEPT !.under_element = s1.curr_elem], stmt.cs) :
          s1 \in {locate(s, stmt.cp)} })

\* Interpreter::execute_stmt, Stmt::UnderActiveElement
execute_under_active(s, stmt) ==
    LET o == Draw(s)
    IN  IF ~o.ok THEN Fail(Drawn(s), error(s, "Error getting active element."))
        ELSE execute_under_base([Drawn(s) EXCEPT !.under_element = ElemOf(o)], stmt.cs)

\* variant of execute_normal: catch-error in Normal mode keeps the buffer
execute_normal_keeps_buffer(s, stmt) ==
    CASE stmt.kind = "Cmd" -> execute_cmd_stmt(s, stmt.cs)
      [] stmt.kind = "If" -> execute_if_stmt(s, stmt)
      [] stmt.kind = "SetVariable" -> set_variable(s, stmt)
      [] stmt.kind = "Comment" -> s
      [] stmt.kind = "CatchErr" -> s
      [] stmt.kind = "SetTryAgainFieldToFalse" -> [s EXCEPT !.tried_again = FALSE]
      [] stmt.kind = "Under" -> execute_under(s, stmt)
      [] stmt.kind = "UnderActiveElement" -> execute_under_active(s, stmt)

\* Interpreter::execute_stmt, the statement kinds in Normal mode
execute_normal(s, stmt) ==
    CASE stmt.kind = "Cmd" -> execute_cmd_stmt(s, stmt.cs)
      [] stmt.kind = "If" -> execute_if_stmt(s, stmt)
      [] stmt.kind = "SetVariable" -> set_variable(s, stmt)
      [] stmt.kind = "Comment" -> s
      [] stmt.kind = "CatchErr" -> [s EXCEPT !.stmts_since_last_error_handling = <<>>]
      [] stmt.kind = "SetTryAgainFieldToFalse" -> [s EXCEPT !.tried_again = FALSE]
      [] stmt.kind = "Under" -> execute_under(s, stmt)
      [] stmt.kind = "UnderActiveElement" -> execute_under_active(s, stmt)

\* variant of execute_sync: a save statement is still executed after an error
execute_sync_still_saves(s, stmt) ==
    IF stmt.kind = "CatchErr"
    THEN The({ IF s1.res # "Ok" THEN s1 ELSE [s1 EXCEPT !.had_error = FALSE] :
               s1 \in {execute_cmd_stmt(s, stmt.cs)} })
    ELSE IF stmt.kind = "SetVariable"
    THEN set_variable([s EXCEPT !.stmts_since_last_error_handling = Append(@, stmt)], stmt)
    ELSE [s EXCEPT !.stmts_since_last_error_handling = Append(@, stmt)]

\* variant of execute_sync: the handler of a catch-error line leaves
\* had_error as it is
execute_sync_stays_in_error(s, stmt) ==
    IF stmt.kind = "CatchErr"
    THEN execute_cmd_stmt(s, stmt.cs)
    ELSE [s EXCEPT !.stmts_since_last_error_handling = Append(@, stmt)]

\* Interpreter::execute_stmt, synchronising after an error
execute_sync(s, stmt) ==
    IF stmt.kind = "CatchErr"
    THEN The({ IF s1.res # "Ok" THEN s1 ELSE [s1 EXCEPT !.had_error = FALSE] :
               s1 \in {execute_cmd_stmt(s, stmt.cs)} })
    ELSE [s EXCEPT !.stmts_since_last_error_handling = Append(@, stmt)]

\* Interpreter::execute_stmt
execute_stmt(s, stmt) ==
    LET s1 == [s EXCEPT !.stmts_since_last_error_handling = Append(@, stmt)]
    IN  IF ~s1.had_error THEN execute_normal(s1, stmt) ELSE execute_sync(s1, stmt)

\* variant of loop_body: a Recoverable failure does not set had_error
loop_body_forgets_error(s, stmt) ==
    execute_stmt(s, stmt)

\* ExecutedStmt { text, error, screenshots } as interpret fills it in
ExecutedStmt(s, stmt) ==
    [text |-> DisplayStmt(stmt),
     error |-> IF s.res = "Ok" THEN <<>> ELSE <<s.msg>>,
     screenshots |-> s.screenshot_buf]

\* Report::add_stmt
add_stmt(report, es) == Append(report, es)

\* variant of report_stmt: the record copies the screenshot buffer and
\* leaves it as it is
report_stmt_keeps_screenshots(s, stmt) ==
    IF s.reporter = NoReporter THEN s
    ELSE [s EXCEPT !.reporter = <<add_stmt(@[1], ExecutedStmt(s, stmt))>>]

\* Interpreter::interpret, `if let Some(ref mut reporter) = self.reporter`
\* in both arms of the match: the record takes the screenshot buffer
report_stmt(s, stmt) ==
    IF s.reporter = NoReporter THEN s
    ELSE [s EXCEPT !.reporter = <<add_stmt(@[1], ExecutedStmt(s, stmt))>>,
                   !.screenshot_buf = 0]

\* Interpreter::interpret, the body of the loop for the popped stmt
loop_body(s, stmt) ==
    The({ IF s2.res = "Recoverable" THEN [s2 EXCEPT !.had_error = TRUE] ELSE s2 :
          s2 \in { report_stmt(s1, stmt) : s1 \in {execute_stmt(s, stmt)} } })

\* the driver conversations a statement can need, in order, and the answers
\* that make a difference to each: whether it succeeds (not for a locate
\* outside demo mode, which fails only by finding nothing) and the element
\* it ends on (for the commands that look at elements)
Talks(cs) == SelectSeq(cs, LAMBDA c : c.op # "TryAgain")
Calls(stmt, err) ==
    IF err
    THEN IF stmt.kind = "CatchErr" THEN Talks(stmt.cs) ELSE <<>>
    ELSE CASE stmt.kind = "If" -> <<stmt.cond>> \o Talks(stmt.cs)
           [] stmt.kind = "Under" -> <<Locate(stmt.cp)>> \o Talks(stmt.cs)
           [] stmt.kind = "UnderActiveElement" -> <<Click>> \o Talks(stmt.cs)
           [] stmt.kind = "Cmd" -> Talks(stmt.cs)
           [] OTHER -> <<>>
Answers(cmd, demo) ==
    CASE cmd.op \in {"Locate", "LocateNoScroll"} ->
             { o \in Outcome : o.ok \/ (demo /\ o.el # 0) }
      [] cmd.op \in {"Refresh", "Screenshot", "Url", "Chill", "AcceptAlert",
                     "DismissAlert"} -> { o \in Outcome : o.el = 0 }
      [] OTHER -> Outcome
Oracles(calls, demo) ==
    { orc \in [DOMAIN calls -> Outcome] :
        \A i \in DOMAIN calls : orc[i] \in Answers(calls[i], demo) }

\* the window of the pending stack the model keeps: its top MaxStack entries
Window(stk) ==
    IF Len(stk) > MaxStack THEN SubSeq(stk, Len(stk) - MaxStack + 1, Len(stk)) ELSE stk

Self(orc) ==
    [stmts |-> SubSeq(stmts, 1, Len(stmts) - 1),
     environment |-> environment, curr_elem |-> curr_elem, locator |-> locator,
     had_error |-> had_error,
     stmts_since_last_error_handling |-> stmts_since_last_error_handling,
     tried_again |-> tried_again, screenshot_buf |-> screenshot_buf,
     is_demo |-> is_demo, under_element |-> under_element, reporter |-> reporter,
     orc |-> orc, oi |-> 1, res |-> "Ok", msg |-> "", ran |-> <<>>, requeued |-> <<>>]

\* the statement's commands are run (not skipped) when it is taken in this mode
Attempts(stmt, err) ==
    IF err THEN stmt.kind = "CatchErr"
    ELSE stmt.kind \in {"Cmd", "If", "Under", "UnderActiveElement"}

(***************************************************************************)
(* The state machine.                                                      *)
(***************************************************************************)
\* Interpreter::new; the runs modelled are those started without demo mode
Init ==
    /\ script \in Scripts
    /\ stmts = Reverse(script)
    /\ environment = [n \in VarNames |-> <<>>]
    /\ curr_elem = 0
    /\ locator = <<>>
    /\ had_error = FALSE
    /\ stmts_since_last_error_handling = <<>>
    /\ tried_again = FALSE
    /\ screenshot_buf = 0
    /\ is_demo = FALSE
    /\ under_element = 0
    /\ pc = "new"
    /\ result = "none"
    /\ exited = FALSE
    /\ cut = 0
    /\ hist = [i \in 1..Len(script) |-> <<>>]
    /\ first = [i \in 1..Len(script) |-> <<>>]
    /\ last = NoLast
    /\ any_failed = FALSE
    /\ unhandled = FALSE
    /\ dead_upto = 0
    /\ src = <<>>
    /\ tokens = <<>>
    /\ parsed = NoParse
    /\ call = NoCall
    /\ page = NoPage
    /\ executor = NoExecutor
    /\ reporter = NoReporter

\* Interpreter::interpret, the reset before the loop
Begin ==
    /\ pc = "new"
    /\ curr_elem' = 0
    /\ had_error' = FALSE
    /\ stmts_since_last_error_handling' = <<>>
    /\ tried_again' = FALSE
    /\ pc' = "loop"
    /\ UNCHANGED <<script, stmts, environment, locator, screenshot_buf, is_demo,
                   under_element, result, exited, cut, hist, first, last, any_failed,
                   unhandled, dead_upto, src, tokens, parsed, call, browser, reporter>>

\* Interpreter::interpret, one iteration of the loop on a statement of kind K
Iterate(K) ==
    /\ pc = "loop"
    /\ stmts # <<>>
    /\ stmts[Len(stmts)].kind = K
    /\ \E orc \in Oracles(Calls(stmts[Len(stmts)], had_error), is_demo) :
       \E s \in {loop_body(Self(orc), stmts[Len(stmts)])} :
         LET stmt == stmts[Len(stmts)]
         IN  /\ stmts' = Window(s.stmts)
             /\ cut' = IF Len(s.stmts) > MaxStack THEN 1 + (cut % 2) ELSE cut
             /\ environment' = s.environment
             /\ curr_elem' = s.curr_elem
             /\ locator' = s.locator
             /\ had_error' = s.had_error
             /\ stmts_since_last_error_handling' = s.stmts_since_last_error_handling
             /\ tried_again' = s.tried_again
             /\ screenshot_buf' = s.screenshot_buf
             /\ reporter' = s.reporter
             /\ under_element' = s.under_element
             /\ exited' = (s.res = "Exit")
             /\ pc' = IF s.res = "Exit" THEN "end" ELSE "loop"
             /\ hist' = IF stmt.line # 0 /\ Attempts(stmt, had_error)
                            /\ Len(hist[stmt.line]) < MaxExecs
                        THEN [hist EXCEPT ![stmt.line] = Append(@, s.res)]
                        ELSE hist
             /\ last' = [line |-> stmt.line, kind |-> stmt.kind, mode |-> had_error,
                         tried |-> tried_again, res |-> s.res, msg |-> s.msg,
                         ran |-> s.ran, requeued |-> s.requeued]
             /\ first' = IF stmt.line # 0 /\ first[stmt.line] = <<>>
                         THEN [first EXCEPT ![stmt.line] =
                                  <<[mode |-> had_error, tried |-> tried_again]>>]
                         ELSE first
             /\ any_failed' = (any_failed \/ s.res # "Ok")
             /\ unhandled' = IF s.res # "Ok" THEN TRUE
                             ELSE IF stmt.kind = "CatchErr" /\ had_error THEN FALSE
                             ELSE unhandled
             /\ dead_upto' = IF stmt.kind = "CatchErr" /\ ~had_error /\ stmt.line > dead_upto
                             THEN stmt.line ELSE dead_upto
    /\ UNCHANGED <<script, is_demo, result, src, tokens, parsed, call, browser>>

\* the loop finds the stack empty
Drained ==
    /\ pc = "loop"
    /\ stmts = <<>>
    /\ pc' = IF cut # 0 THEN "cut" ELSE "end"
    /\ UNCHANGED <<script, stmts, environment, curr_elem, locator, had_error,
                   stmts_since_last_error_handling, tried_again, screenshot_buf,
                   is_demo, under_element, result, exited, cut, hist, first, last, any_failed,
                   unhandled, dead_upto, src, tokens, parsed, call, browser, reporter>>

\* Interpreter::interpret, after the loop: close the window, return had_error
Return ==
    /\ pc = "end"
    /\ \E close_driver \in BOOLEAN, closed \in BOOLEAN :
         result' = IF close_driver /\ ~closed THEN "Err"
                   ELSE IF had_error THEN "Ok(true)" ELSE "Ok(false)"
    /\ pc' = "done"
    /\ UNCHANGED <<script, stmts, environment, curr_elem, locator, had_error,
                   stmts_since_last_error_handling, tried_again, screenshot_buf,
                   is_demo, under_element, exited, cut, hist, first, last, any_failed,
                   unhandled, dead_upto, src, tokens, parsed, call, browser, reporter>>

Next ==
    \/ Begin
    \/ Iterate("Cmd")
    \/ Iterate("If")
    \/ Iterate("SetVariable")
    \/ Iterate("Comment")
    \/ Iterate("CatchErr")
    \/ Iterate("SetTryAgainFieldToFalse")
    \/ Iterate("Under")
    \/ Iterate("UnderActiveElement")
    \/ Drained
    \/ Return

Spec == Init /\ [][Next]_vars

\* the loop is a sequential program: it takes its next step whenever it has one
FairSpec == Init /\ [][Next]_vars /\ WF_vars(Next)

(***************************************************************************)
(* Runs with a reporter attached, on scripts of statements that fail and   *)
(* recover: a locate, a comment, a catch-error line that only takes a      *)
(* screenshot and one that runs try-again first.                           *)
(***************************************************************************)
\* longest script of these runs
MaxReplayLen == 4

ReplayPool ==
    { CmdS(<<Locate(String(<<"a">>))>>),
      Stmt("Comment", NoCmd, <<>>, NoParam, "", <<Hash, "n">>),
      CatchErrS(<<Screenshot>>),
      CatchErrS(<<TryAgain, Screenshot>>) }

ReplayScripts ==
    { WithLines(f) : f \in UNION { [1..n -> ReplayPool] : n \in 0..MaxReplayLen } }

\* Interpreter::new(driver, stmts, false, Some(report)) with an empty report
ReplayInit ==
    /\ script \in ReplayScripts
    /\ stmts = Reverse(script)
    /\ environment = [n \in VarNames |-> <<>>]
    /\ curr_elem = 0
    /\ locator = <<>>
    /\ had_error = FALSE
    /\ stmts_since_last_error_handling = <<>>
    /\ tried_again = FALSE
    /\ screenshot_buf = 0
    /\ is_demo = FALSE
    /\ under_element = 0
    /\ pc = "new"
    /\ result = "none"
    /\ exited = FALSE
    /\ cut = 0
    /\ hist = [i \in 1..Len(script) |-> <<>>]
    /\ first = [i \in 1..Len(script) |-> <<>>]
    /\ last = NoLast
    /\ any_failed = FALSE
    /\ unhandled = FALSE
    /\ dead_upto = 0
    /\ src = <<>>
    /\ tokens = <<>>
    /\ parsed = NoParse
    /\ call = NoCall
    /\ page = NoPage
    /\ executor = NoExecutor
    /\ reporter = <<<<>>>>

ReplayNext ==
    \/ Begin
    \/ Iterate("Cmd")
    \/ Iterate("Comment")
    \/ Iterate("CatchErr")
    \/ Iterate("SetTryAgainFieldToFalse")
    \/ Drained
    \/ Return

ReplaySpec == ReplayInit /\ [][ReplayNext]_vars

(***************************************************************************)
(* The Environment on its own: any store, and the calls the interpreter    *)
(* makes on it (set_variable for a save statement, get_variable through    *)
(* resolve for a command parameter).                                       *)
(***************************************************************************)
EnvNames == {"v", "w"}
EnvValues == {"a", "b"}
Stores == [EnvNames -> {<<>>} \cup { <<x>> : x \in EnvValues }]

\* an interpreter that has no script: only the fields named matter
Idle ==
    /\ script = <<>>
    /\ stmts = <<>>
    /\ curr_elem = 0
    /\ locator = <<>>
    /\ had_error = FALSE
    /\ stmts_since_last_error_handling = <<>>
    /\ screenshot_buf = 0
    /\ is_demo = FALSE
    /\ under_element = 0
    /\ result = "none"
    /\ exited = FALSE
    /\ cut = 0
    /\ hist = <<>>
    /\ first = <<>>
    /\ last = NoLast
    /\ any_failed = FALSE
    /\ unhandled = FALSE
    /\ dead_upto = 0
IdleVars ==
    <<script, stmts, curr_elem, locator, had_error, stmts_since_last_error_handling,
      screenshot_buf, is_demo, under_element, result, exited, cut, hist, first, last,
      any_failed, unhandled, dead_upto>>

EnvSelf == [environment |-> environment, tried_again |-> tried_again]

EnvInit ==
    /\ Idle
    /\ environment \in Stores
    /\ tried_again \in BOOLEAN
    /\ pc = "env"
    /\ src = <<>>
    /\ tokens = <<>>
    /\ parsed = NoParse
    /\ call = NoCall
    /\ page = NoPage
    /\ executor = NoExecutor
    /\ reporter = NoReporter

\* Interpreter::set_variable for a save statement
EnvSet ==
    /\ pc = "env"
    /\ \E n \in EnvNames, x \in EnvValues :
         /\ environment' = set_variable(EnvSelf, [name |-> n, value |-> x]).environment
         /\ call' = [op |-> "set", name |-> n, value |-> x,
                     before |-> environment, got |-> <<>>]
    /\ UNCHANGED <<IdleVars, tried_again, pc, src, tokens, parsed, browser, reporter>>

\* Environment::get_variable
EnvGet ==
    /\ pc = "env"
    /\ \E n \in EnvNames :
         call' = [op |-> "get", name |-> n, value |-> "",
                  before |-> environment, got |-> env_get_variable(environment, n)]
    /\ UNCHANGED <<IdleVars, environment, tried_again, pc, src, tokens, parsed, browser, reporter>>

\* Interpreter::resolve of a command parameter
EnvResolve ==
    /\ pc = "env"
    /\ \E cp \in { Variable(n) : n \in EnvNames } \cup { String(x) : x \in EnvValues } :
         call' = [op |-> "resolve", name |-> cp.v, value |-> cp.t,
                  before |-> environment, got |-> resolve(EnvSelf, cp)]
    /\ UNCHANGED <<IdleVars, environment, tried_again, pc, src, tokens, parsed, browser, reporter>>

EnvNext ==
    \/ EnvSet
    \/ EnvGet
    \/ EnvResolve

EnvSpec == EnvInit /\ [][EnvNext]_vars

(***************************************************************************)
(* scanner.rs.  Text is a sequence of atoms: the space, the double quote,  *)
(* the hash, and words (runs of other characters), no two words adjacent.  *)
(* A source is the sequence of its lines (str::lines), a lexeme is text.   *)
(***************************************************************************)

\* Scanner::resolve_token, the keyword arms: the token type of a keyword
KeywordType(word) ==
    CASE word = "locate" -> "Locate"
      [] word = "type" -> "Type"
      [] word = "click" -> "Click"
      [] word = "refresh" -> "Refresh"
      [] word = "try-again" -> "TryAgain"
      [] word = "screenshot" -> "Screenshot"
      [] word = "catch-error:" -> "CatchError"
      [] word = "if" -> "If"
      [] word = "then" -> "Then"
      [] word = "and" -> "And"
      [] word = "read-to" -> "ReadTo"
      [] word = "save" -> "Save"
      [] word = "as" -> "As"
      [] word = "url" -> "Url"
      [] word = "press" -> "Press"
      [] word = "chill" -> "Chill"
      [] word = "locate-no-scroll" -> "LocateNoScroll"
      [] word = "select" -> "Select"
      [] word = "drag-to" -> "DragTo"
      [] word = "upload" -> "Upload"
      [] word = "accept-alert" -> "AcceptAlert"
      [] word = "dismiss-alert" -> "DismissAlert"
      [] word = "under" -> "Under"
      [] word = "under-active-element" -> "UnderActiveElement"
      [] OTHER -> ""
\* the lexeme the keyword's token is given
KeywordLexeme(word) == IF word = "catch-error:" THEN "catch-error" ELSE word

\* str::trim
RECURSIVE TrimStart(_)
TrimStart(q) == IF q # <<>> /\ Head(q) = Space THEN TrimStart(Tail(q)) ELSE q
Trim(q) == Reverse(TrimStart(Reverse(TrimStart(q))))

\* str::split and slice::split: the pieces between the separators at the
\* positions seps, empty pieces included
Pieces(q, seps) ==
    LET nth(k) == CHOOSE i \in seps : Cardinality({ j \in seps : j < i }) = k - 1
        n == Cardinality(seps)
    IN  [k \in 1..(n + 1) |->
            SubSeq(q, IF k = 1 THEN 1 ELSE nth(k - 1) + 1,
                      IF k = n + 1 THEN Len(q) ELSE nth(k) - 1)]

\* Scanner::token
Token(sc, tt, lexeme) == [tt |-> tt, line |-> sc.line, lexeme |-> lexeme]
\* Scanner::add_token
add_token(sc, tt, lexeme) == [sc EXCEPT !.tokens = Append(@, Token(sc, tt, lexeme))]

\* Scanner::from_src
from_src == [tokens |-> <<>>, line |-> 0, string_literal_buffer |-> <<>>,
             in_quotes |-> FALSE]

\* Scanner::resolve_token
resolve_token(sc, word) ==
    IF Len(word) = 1 /\ KeywordType(word[1]) # "" /\ ~sc.in_quotes
    THEN add_token(sc, KeywordType(word[1]), <<KeywordLexeme(word[1])>>)
    ELSE IF word # <<>> /\ Head(word) = Quote /\ word[Len(word)] = Quote
            /\ ~sc.in_quotes /\ Len(word) > 1
    THEN add_token(sc, "StringLiteral", SubSeq(word, 2, Len(word) - 1))
    ELSE IF word # <<>> /\ Head(word) = Quote /\ ~sc.in_quotes
    THEN [sc EXCEPT !.in_quotes = TRUE,
                    !.string_literal_buffer = (@ \o Tail(word)) \o <<Space>>]
    ELSE IF word # <<>> /\ word[Len(word)] = Quote /\ sc.in_quotes
    THEN [add_token(sc, "StringLiteral",
                    sc.string_literal_buffer \o SubSeq(word, 1, Len(word) - 1))
            EXCEPT !.in_quotes = FALSE, !.string_literal_buffer = <<>>]
    ELSE IF sc.in_quotes
    THEN [sc EXCEPT !.string_literal_buffer = (@ \o word) \o <<Space>>]
    ELSE add_token(sc, "Variable", word)

\* Scanner::scan, the loop over the pieces of one line
RECURSIVE scan_items(_, _)
scan_items(sc, items) ==
    IF items = <<>> THEN sc
    ELSE The({ scan_items(sc1, Tail(items)) : sc1 \in {resolve_token(sc, Head(items))} })

\* variant of scan_line: the line counter moves on for non-blank lines only
scan_line_counts_written(sc, stmt) ==
    IF Trim(stmt) = <<>> THEN sc
    ELSE The({ IF Head(Trim(stmt)) = Hash
               THEN add_token(add_token(sc1, "Comment", stmt), "Eol", <<"EOL">>)
               ELSE The({ add_token(sc2, "Eol", <<"EOL">>) :
                          sc2 \in {scan_items(sc1,
                                     Pieces(Trim(stmt),
                                            { i \in DOMAIN Trim(stmt) : Trim(stmt)[i] = Space }))} }) :
               sc1 \in {[sc EXCEPT !.line = @ + 1]} })

\* Scanner::scan, the body of the loop for one line of the source
scan_line(sc, stmt) ==
    The({ IF Trim(stmt) = <<>> THEN sc1
          ELSE IF Head(Trim(stmt)) = Hash
          THEN add_token(add_token(sc1, "Comment", stmt), "Eol", <<"EOL">>)
          ELSE The({ add_token(sc2, "Eol", <<"EOL">>) :
                     sc2 \in {scan_items(sc1,
                                Pieces(Trim(stmt),
                                       { i \in DOMAIN Trim(stmt) : Trim(stmt)[i] = Space }))} }) :
          sc1 \in {[sc EXCEPT !.line = @ + 1]} })

RECURSIVE scan_lines(_, _)
scan_lines(sc, lines) ==
    IF lines = <<>> THEN sc
    ELSE The({ scan_lines(sc1, Tail(lines)) : sc1 \in {scan_line(sc, Head(lines))} })

\* variant of scan: no end-of-file token is added when the source has no
\* line that holds a token
scan_eof_after_tokens(source) ==
    The({ IF sc.tokens = <<>> THEN <<>> ELSE add_token(sc, "Eof", <<"EOF">>).tokens :
          sc \in {scan_lines(from_src, source)} })

\* Scanner::scan
scan(source) ==
    The({ add_token(sc, "Eof", <<"EOF">>).tokens : sc \in {scan_lines(from_src, source)} })

(***************************************************************************)
(* parser.rs.  A parser is [curr_line, index]; every helper returns        *)
(* [res, val, index, err]: res is "Ok", "Err" (the Result's Err) or        *)
(* "Panic" (an unwrap of None), index the parser's index afterwards.  The  *)
(* payload of a String, Variable or Comment token type is the lexeme.      *)
(***************************************************************************)
POk(i, v) == [res |-> "Ok", val |-> v, index |-> i, err |-> <<>>]
PErr(i, e) == [res |-> "Err", val |-> <<>>, index |-> i, err |-> e]
PPanic(i) == [res |-> "Panic", val |-> <<>>, index |-> i, err |-> <<>>]
\* the parser after a helper has returned r
At(p, r) == [p EXCEPT !.index = r.index]

\* Token::error: the message carries the token's line and lexeme
TokenError(token, msg) == [line |-> token.line, lexeme |-> token.lexeme, msg |-> msg]
\* anyhow's bail! with a bare message
Bare(msg) == [line |-> 0, lexeme |-> <<>>, msg |-> msg]

\* Parser::current_token, <<>> for None
current_token(p) ==
    IF p.index < Len(p.curr_line) THEN <<p.curr_line[p.index + 1]>> ELSE <<>>

\* Parser::advance_on
advance_on(p, tt) ==
    IF current_token(p) # <<>>
    THEN IF current_token(p)[1].tt = tt
         THEN POk(p.index + 1, current_token(p)[1])
         ELSE PErr(p.index, TokenError(current_token(p)[1], <<"Expected token", tt>>))
    ELSE PErr(p.index, Bare(<<"Fix this later">>))

\* Parser::advance_on_any_of
RECURSIVE advance_on_any_of_from(_, _, _)
advance_on_any_of_from(p, tts, all) ==
    IF tts = <<>>
    THEN PErr(p.index, Bare(<<"Expected one of the following tokens">> \o all))
    ELSE IF advance_on(p, Head(tts)).res = "Ok" THEN advance_on(p, Head(tts))
    ELSE advance_on_any_of_from(p, Tail(tts), all)
advance_on_any_of(p, tts) == advance_on_any_of_from(p, tts, tts)

\* Parser::advance_on_any: the index moves on, then the unwrap
advance_on_any(p) ==
    IF p.index < Len(p.curr_line)
    THEN POk(p.index + 1, p.curr_line[p.index + 1])
    ELSE PPanic(p.index + 1)

\* TryFrom<Token> for CmdParam
CmdParamOf(token) ==
    IF token.tt = "StringLiteral" THEN String(token.lexeme) ELSE Variable(token.lexeme)

\* Parser::parse_cmd_param
parse_cmd_param(p) ==
    The({ IF r.res = "Ok" THEN POk(r.index, CmdParamOf(r.val)) ELSE r :
          r \in {advance_on_any_of(p, <<"StringLiteral", "Variable">>)} })

\* the commands parse_cmd reads a parameter for, and those it reads bare
ParamCmds == {"Locate", "LocateNoScroll", "Type", "Url", "Press", "Chill",
              "Select", "DragTo", "Upload"}
BareCmds == {"Click", "Refresh", "TryAgain", "Screenshot", "AcceptAlert", "DismissAlert"}

\* Parser::parse_cmd
parse_cmd(p) ==
    IF \E tt \in ParamCmds : advance_on(p, tt).res = "Ok"
    THEN The({ IF r.res = "Ok"
               THEN POk(r.index, [op |-> current_token(p)[1].tt, cp |-> r.val])
               ELSE r :
               r \in {parse_cmd_param([p EXCEPT !.index = @ + 1])} })
    ELSE IF advance_on(p, "ReadTo").res = "Ok"
    THEN The({ IF r.res = "Ok" THEN POk(r.index, ReadTo(r.val.lexeme)) ELSE r :
               r \in {advance_on([p EXCEPT !.index = @ + 1], "Variable")} })
    ELSE The({ IF r.res # "Ok" THEN r
               ELSE IF r.val.tt \in BareCmds
               THEN POk(r.index, [op |-> r.val.tt, cp |-> NoParam])
               ELSE PErr(r.index, Bare(<<"Expected Command">>)) :
               r \in {advance_on_any(p)} })

\* Parser::parse_cmd_stmt: the chain lhs (and rhs)* as the sequence cs of its
\* commands and the sequence ands of the `and` tokens kept between them
RECURSIVE parse_cmd_stmt(_)
parse_cmd_stmt(p) ==
    The({ IF lhs.res # "Ok" THEN lhs
          ELSE The({ IF a.res # "Ok"
                     THEN POk(lhs.index, [cs |-> <<lhs.val>>, ands |-> <<>>])
                     ELSE The({ IF rhs.res # "Ok" THEN rhs
                                ELSE POk(rhs.index,
                                         [cs |-> <<lhs.val>> \o rhs.val.cs,
                                          ands |-> <<a.val>> \o rhs.val.ands]) :
                                rhs \in {parse_cmd_stmt(At(p, a))} }) :
                     a \in {advance_on(At(p, lhs), "And")} }) :
          lhs \in {parse_cmd(p)} })

\* Stmt::Comment(s): the text of the comment is kept in value
CommentOf(text) == Stmt("Comment", NoCmd, <<>>, NoParam, "", text)

\* a statement as the parser builds it: the statement and its `and` tokens
Built(stmt, ands) == [stmt |-> stmt, ands |-> ands]

\* Parser::parse_if_stmt
parse_if_stmt(p) ==
    The({ IF c.res # "Ok" THEN c
          ELSE The({ IF t.res # "Ok" THEN t
                     ELSE The({ IF b.res # "Ok" THEN b
                                ELSE POk(b.index,
                                         Built(IfS(c.val, b.val.cs), b.val.ands)) :
                                b \in {parse_cmd_stmt(At(p, t))} }) :
                     t \in {advance_on(At(p, c), "Then")} }) :
          c \in {parse_cmd(p)} })

\* Parser::parse_stmt, the `save` arm
parse_save(p) ==
    The({ IF value.res # "Ok" THEN value
          ELSE The({ IF as.res # "Ok" THEN as
                     ELSE The({ IF name.res # "Ok" THEN name
                                ELSE POk(name.index,
                                         Built(SetVariableS(name.val.lexeme,
                                                            value.val.lexeme), <<>>)) :
                                name \in {advance_on(At(p, as), "Variable")} }) :
                     as \in {advance_on(At(p, value), "As")} }) :
          value \in {advance_on(p, "StringLiteral")} })

\* Parser::parse_stmt, the arms that end in a command statement: the
\* statement of the given kind (Cmd, CatchErr, UnderActiveElement, Under)
parse_tail(p, kind, cp) ==
    The({ IF cs.res # "Ok" THEN cs
          ELSE POk(cs.index,
                   Built(Stmt(kind, NoCmd, cs.val.cs, cp, "", ""), cs.val.ands)) :
          cs \in {parse_cmd_stmt(p)} })

\* Parser::parse_stmt, the `under` arm
parse_under(p) ==
    The({ IF cp.res # "Ok" THEN cp
          ELSE parse_tail(At(p, cp), "Under", cp.val) :
          cp \in {parse_cmd_param(p)} })

\* Parser::parse_stmt
parse_stmt(p) ==
    LET next == [p EXCEPT !.index = @ + 1]
    IN  IF advance_on(p, "If").res = "Ok" THEN parse_if_stmt(next)
        ELSE IF advance_on(p, "Under").res = "Ok" THEN parse_under(next)
        ELSE IF advance_on(p, "UnderActiveElement").res = "Ok"
        THEN parse_tail(next, "UnderActiveElement", NoParam)
        ELSE IF advance_on(p, "Comment").res = "Ok"
        THEN POk(p.index + 1, Built(CommentOf(current_token(p)[1].lexeme), <<>>))
        ELSE IF advance_on(p, "CatchError").res = "Ok"
        THEN parse_tail(next, "CatchErr", NoParam)
        ELSE IF advance_on(p, "Save").res = "Ok" THEN parse_save(next)
        ELSE parse_tail(p, "Cmd", NoParam)

\* Parser::new, with the line it is given
Parser(line) == [curr_line |-> line, index |-> 0]

\* Parser::parse, the body of the loop for one line; out is
\* [stmts, printed, lines, state], state "run", "done" (the break) or "panic"
parse_line(out, line) ==
    IF out.state # "run" THEN out
    ELSE IF current_token(Parser(line)) = <<>>
    THEN [out EXCEPT !.state = "panic"]
    ELSE IF current_token(Parser(line))[1].tt = "Eof"
    THEN [out EXCEPT !.state = "done"]
    ELSE The({ IF r.res = "Ok"
               THEN [out EXCEPT !.stmts = Append(@, r.val), !.lines = Append(@, "Ok")]
               ELSE IF r.res = "Err"
               THEN [out EXCEPT !.printed = Append(@, r.err), !.lines = Append(@, "Err")]
               ELSE [out EXCEPT !.state = "panic"] :
               r \in {parse_stmt(Parser(line))} })

RECURSIVE parse_lines(_, _)
parse_lines(out, lines) ==
    IF lines = <<>> THEN out
    ELSE The({ parse_lines(o1, Tail(lines)) : o1 \in {parse_line(out, Head(lines))} })

\* Parser::parse: stmts is what it returns, printed what it writes to the
\* standard error, lines the outcome of each line it went through
parse(toks) ==
    IF toks = <<>> \/ toks[Len(toks)].tt # "Eof"
    THEN [stmts |-> <<>>, printed |-> <<>>, lines |-> <<>>, state |-> "panic"]
    ELSE parse_lines([stmts |-> <<>>, printed |-> <<>>, lines |-> <<>>, state |-> "run"],
                     Pieces(toks, { i \in DOMAIN toks : toks[i].tt = "Eol" }))

(***************************************************************************)
(* The front end: a source is scanned, its tokens are parsed, and the      *)
(* statements parsed are rendered and read again (lib.rs, run).            *)
(***************************************************************************)
MaxLines == 2

\* a string literal as it is written
Lit(text) == (<<Quote>> \o text) \o <<Quote>>
\* words written with one space between them
RECURSIVE Words(_)
Words(ws) ==
    IF Len(ws) = 1 THEN Head(ws) ELSE (Head(ws) \o <<Space>>) \o Words(Tail(ws))

\* the lines sources are made of: statements of every kind with every
\* command, a comment, a blank line, and malformed lines
LinePool ==
    { Words(<< <<"locate">>, Lit(<<"a">>), <<"and">>, <<"click">> >>),
      Words(<< <<"save">>, Lit(<<"a", Space, "b">>), <<"as">>, <<"v">> >>),
      <<Hash, Space, "note">>,
      <<Space, Hash, "note", Space, Quote, "a">>,
      <<Space>>,
      Words(<< <<"locate">>, Lit(<<"click", Space, "and", Space, "go">>), <<"and">>,
               <<"click">> >>),
      Words(<< <<"if">>, <<"locate">>, <<"v">>, <<"then">>, <<"click">>,
               <<"and">>, <<"refresh">> >>),
      Words(<< <<"catch-error:">>, <<"screenshot">>, <<"and">>, <<"try-again">> >>),
      Words(<< <<"under">>, Lit(<<"a">>), <<"locate-no-scroll">>, Lit(<<"b">>) >>),
      Words(<< <<"under-active-element">>, <<"read-to">>, <<"v">> >>),
      Words(<< <<"type">>, Lit(<<"a">>), <<"and">>, <<"press">>, Lit(<<"a">>),
               <<"and">>, <<"select">>, <<"v">>, <<"and">>, <<"chill">>, Lit(<<"1">>) >>),
      Words(<< <<"url">>, Lit(<<"a">>), <<"and">>, <<"drag-to">>, Lit(<<"a">>),
               <<"and">>, <<"upload">>, Lit(<<"a">>), <<"and">>, <<"accept-alert">>,
               <<"and">>, <<"dismiss-alert">> >>),
      Words(<< <<"locate">>, <<"click">> >>),
      Words(<< <<"locate">>, Lit(<<"x">>), <<"click">> >>),
      Words(<< <<"locate">>, Lit(<<"a">>), <<"and">> >>),
      Words(<< <<"if">>, <<"click">>, <<"then">> >>),
      <<"catch-error:">>,
      Words(<< <<"under">>, Lit(<<"a">>) >>),
      <<Quote, "a">> }

Sources == UNION { [1..n -> LinePool] : n \in 0..MaxLines }

FrontInit ==
    /\ Idle
    /\ environment = <<>>
    /\ tried_again = FALSE
    /\ pc = "scan"
    /\ src \in Sources
    /\ tokens = <<>>
    /\ parsed = NoParse
    /\ call = NoCall
    /\ page = NoPage
    /\ executor = NoExecutor
    /\ reporter = NoReporter

\* Scanner::from_src(code).scan()
Scan ==
    /\ pc = "scan"
    /\ tokens' = scan(src)
    /\ pc' = "parse"
    /\ UNCHANGED <<IdleVars, environment, tried_again, src, parsed, call, browser, reporter>>

\* Parser::new().parse(tokens): it returns parsed.stmts, or it panics
Parse ==
    /\ pc = "parse"
    /\ \E out \in {parse(tokens)} :
         /\ parsed' = out
         /\ pc' = IF out.state = "panic" THEN "panic" ELSE "parsed"
    /\ UNCHANGED <<IdleVars, environment, tried_again, src, tokens, call, browser, reporter>>

\* a statement the parser returned is rendered by Display, and the text is
\* scanned and parsed as a source of one line
Render ==
    /\ pc = "parsed"
    /\ \E i \in DOMAIN parsed.stmts :
         \E text \in {DisplayStmt(parsed.stmts[i].stmt)} :
            call' = [op |-> "render", name |-> "", value |-> text,
                     before |-> parsed.stmts[i], got |-> parse(scan(<<text>>))]
    /\ UNCHANGED <<IdleVars, environment, tried_again, pc, src, tokens, parsed, browser, reporter>>

FrontNext ==
    \/ Scan
    \/ Parse
    \/ Render

FrontSpec == FrontInit /\ [][FrontNext]_vars

(***************************************************************************)
(* Interpreter::locate against a document.  The document is the tree       *)
(* Document (node e has the parent Document[e], nodes are numbered in      *)
(* document order); the page says of every node by which query strategies  *)
(* it answers to the locator text, whether it is displayed, and from which *)
(* attempt of the locate on it is in the document (content loads late).    *)
(***************************************************************************)
Document == <<0, 1, 2, 3, 2, 1>>
Nodes == DOMAIN Document
\* WebElement::parent: the root has none
DocParent(e) == Document[e]
\* a query from base returns descendants of base only
RECURSIVE Within(_, _)
Within(e, base) ==
    DocParent(e) # 0 /\ (DocParent(e) = base \/ Within(DocParent(e), base))

\* variant of Strategies: the texts are tried before the placeholders
Strategies_text_first ==
    <<"TextEq", "TextContains", "PlaceholderEq", "PlaceholderContains", "Title",
      "AriaLabel", "Id", "Name", "Class", "Tag", "XPath">>

\* the queries of locate, in the order it makes them
Strategies ==
    <<"PlaceholderEq", "PlaceholderContains", "TextEq", "TextContains", "Title",
      "AriaLabel", "Id", "Name", "Class", "Tag", "XPath">>

\* what a node can be for the locator text: the strategies it answers to
\* ("Contents": its full contents contain the text, which no query asks)
ElementKinds ==
    { {},
      {"PlaceholderEq", "PlaceholderContains"},
      {"PlaceholderContains"},
      {"TextEq", "TextContains", "Contents"},
      {"TextContains", "Contents"},
      {"Title"}, {"AriaLabel"}, {"Id"}, {"Name"}, {"Class"}, {"Tag"}, {"XPath"},
      {"Contents"} }

\* variant of Waits: three attempts
Waits_three == <<0, 5, 10>>

\* the pauses before the attempts of a document-scope locate
Waits == <<0, 5, 10, 20, 30>>

Least(S) == CHOOSE e \in S : \A f \in S : e <= f

\* ElementQuery ... and_displayed().nowait().first(): the first node, from
\* base if there is one, that answers to the strategy; every strategy but
\* the XPath one wants it displayed; 0 for Err
query_first(pg, at, base, strategy) ==
    The({ IF found = {} THEN 0 ELSE Least(found) :
          found \in {{ e \in Nodes :
                         /\ pg.since[e] <= at
                         /\ strategy \in pg.by[e]
                         /\ base = 0 \/ Within(e, base)
                         /\ strategy = "XPath" \/ pg.shown[e] }} })

\* the chain of `if let Ok(found_elem) = ...` from the k-th query on
RECURSIVE strategy_chain(_, _, _, _)
strategy_chain(pg, at, base, k) ==
    IF k > Len(Strategies) THEN 0
    ELSE The({ IF found # 0 THEN found ELSE strategy_chain(pg, at, base, k + 1) :
               found \in {query_first(pg, at, base, Strategies[k])} })

\* Interpreter::locate, the loop `for wait in [0, 5, 10, 20, 30]` from its
\* n-th round on; s.slept lists the pauses made
RECURSIVE locate_document(_, _, _)
locate_document(s, pg, n) ==
    IF n > Len(Waits) THEN Fail(s, error(s, "Could not locate the element"))
    ELSE The({ IF found # 0
               THEN set_curr_elem([s EXCEPT !.slept = Append(@, Waits[n])], found,
                                  [ok |-> TRUE, el |-> found])
               ELSE locate_document([s EXCEPT !.slept = Append(@, Waits[n])], pg, n + 1) :
               found \in {strategy_chain(pg, n, 0, 1)} })

\* variant of locate_under: a search that finds nothing under the base goes
\* on in the whole document
RECURSIVE locate_under_leaves_scope(_, _)
locate_under_leaves_scope(s, pg) ==
    IF s.under_element = 0 THEN locate_document(s, pg, 1)
    ELSE The({ IF found # 0
               THEN set_curr_elem(s, found, [ok |-> TRUE, el |-> found])
               ELSE locate_under_leaves_scope([s EXCEPT !.under_element = 0], pg) :
               found \in {strategy_chain(pg, 1, s.under_element, 1)} })

\* Interpreter::locate after the locator is stored: the search from the
\* base of an under statement, which climbs to the parent and calls locate
\* again when nothing matches, then the search of the document
RECURSIVE locate_under(_, _)
locate_under(s, pg) ==
    IF s.under_element = 0 THEN locate_document(s, pg, 1)
    ELSE The({ IF found # 0
               THEN set_curr_elem(s, found, [ok |-> TRUE, el |-> found])
               ELSE locate_under([s EXCEPT !.under_element = DocParent(@)], pg) :
               found \in {strategy_chain(pg, 1, s.under_element, 1)} })

\* Interpreter::locate on the page pg
locate_page(s, cp, pg) ==
    The({ IF ~r.ok THEN Fail(s, r.err)
          ELSE locate_under([s EXCEPT !.locator = <<r.val>>], pg) :
          r \in {resolve(s, cp)} })

\* the pages of the model: nodes 1, 2, 3 are containers, nodes 4 (inside 3),
\* 5 (inside 2, beside 3) and 6 (beside 2) are what the locator may match;
\* at most one of 4, 5 is hidden, and 4 may come with the second attempt
\* or 5 with the fifth
Pages ==
    { [by |-> [e \in Nodes |-> CASE e = 4 -> k4 [] e = 5 -> k5 [] e = 6 -> k6
                                 [] OTHER -> {}],
       shown |-> [e \in Nodes |-> e # hidden],
       since |-> [e \in Nodes |-> IF e = late[1] THEN late[2] ELSE 1]] :
      k4 \in ElementKinds, k5 \in ElementKinds,
      k6 \in {{}, {"TextEq", "TextContains", "Contents"}},
      hidden \in {0, 4, 5},
      late \in {<<0, 1>>, <<4, 2>>, <<5, 5>>} }

\* the interpreter as locate sees it
LocSelf ==
    [environment |-> environment, tried_again |-> tried_again, is_demo |-> is_demo,
     curr_elem |-> curr_elem, locator |-> locator, under_element |-> under_element,
     res |-> "Ok", msg |-> "", slept |-> <<>>]

LocateInit ==
    /\ script = <<>>
    /\ stmts = <<>>
    /\ had_error = FALSE
    /\ stmts_since_last_error_handling = <<>>
    /\ screenshot_buf = 0
    /\ is_demo = FALSE
    /\ result = "none"
    /\ exited = FALSE
    /\ cut = 0
    /\ hist = <<>>
    /\ first = <<>>
    /\ last = NoLast
    /\ any_failed = FALSE
    /\ unhandled = FALSE
    /\ dead_upto = 0
    /\ src = <<>>
    /\ tokens = <<>>
    /\ parsed = NoParse
    /\ call = NoCall
    /\ executor = NoExecutor
    /\ reporter = NoReporter
    /\ page \in Pages
    /\ environment \in [VarNames -> {<<>>, <<"x">>}]
    /\ tried_again \in BOOLEAN
    /\ curr_elem = 1
    /\ locator = <<"old">>
    /\ under_element \in {0, 2, 3}
    /\ pc = "locate"

\* Interpreter::locate(cp, scroll_into_view)
LocateCmd ==
    /\ pc = "locate"
    /\ \E cp \in {String("x")} \cup { Variable(n) : n \in VarNames } :
         \E s \in {locate_page(LocSelf, cp, page)} :
            /\ curr_elem' = s.curr_elem
            /\ locator' = s.locator
            /\ under_element' = s.under_element
            /\ call' = [op |-> "locate", name |-> cp.v, value |-> cp.t,
                        before |-> LocSelf,
                        got |-> [res |-> s.res, msg |-> s.msg, slept |-> s.slept]]
    /\ pc' = "located"
    /\ UNCHANGED <<script, stmts, environment, had_error, stmts_since_last_error_handling,
                   tried_again, screenshot_buf, is_demo, result, exited, cut, hist, first,
                   last, any_failed, unhandled, dead_upto, src, tokens, parsed, page,
                   executor, reporter>>

LocateNext ==
    \/ LocateCmd

LocateSpec == LocateInit /\ [][LocateNext]_vars

(***************************************************************************)
(* The scoped locate call by call: every call of Interpreter::locate with  *)
(* a base either finds an element under the base or replaces the base by   *)
(* its parent and calls locate again; the call without a base searches the *)
(* document.  call.before is the base the first call started from and      *)
(* call.got.climbs the number of times the base was replaced.              *)
(***************************************************************************)
\* the count of climbs kept by the model stops here
MaxClimbs == 7

\* the number of elements from the root down to e
RECURSIVE Depth(_)
Depth(e) == IF e = 0 THEN 0 ELSE 1 + Depth(DocParent(e))

\* variant of climb: the base stays what it is
climb_keeps_base(s) == s

\* Interpreter::locate, `self.under_element = base_elem.parent().await.ok()`
climb(s) == [s EXCEPT !.under_element = DocParent(@)]

ClimbInit ==
    /\ script = <<>>
    /\ stmts = <<>>
    /\ had_error = FALSE
    /\ stmts_since_last_error_handling = <<>>
    /\ screenshot_buf = 0
    /\ is_demo = FALSE
    /\ result = "none"
    /\ exited = FALSE
    /\ cut = 0
    /\ hist = <<>>
    /\ first = <<>>
    /\ last = NoLast
    /\ any_failed = FALSE
    /\ unhandled = FALSE
    /\ dead_upto = 0
    /\ src = <<>>
    /\ tokens = <<>>
    /\ parsed = NoParse
    /\ executor = NoExecutor
    /\ reporter = NoReporter
    /\ page \in Pages
    /\ environment = [n \in VarNames |-> <<>>]
    /\ tried_again = FALSE
    /\ curr_elem = 0
    /\ locator = <<>>
    /\ under_element \in {1, 2, 3}
    /\ call = [op |-> "locate", name |-> "x", value |-> "String",
               before |-> under_element,
               got |-> [res |-> "none", msg |-> "", slept |-> <<>>, climbs |-> 0]]
    /\ pc = "scoped"

ClimbFrame ==
    <<script, stmts, environment, had_error, stmts_since_last_error_handling,
      tried_again, screenshot_buf, is_demo, result, exited, cut, hist, first, last,
      any_failed, unhandled, dead_upto, src, tokens, parsed, page, executor, reporter>>

\* a call with a base that finds an element under it
ScopedFound ==
    /\ pc = "scoped"
    /\ under_element # 0
    /\ \E found \in {strategy_chain(page, 1, under_element, 1)} :
         /\ found # 0
         /\ curr_elem' = set_curr_elem(LocSelf, found, [ok |-> TRUE, el |-> found]).curr_elem
    /\ locator' = <<call.name>>
    /\ call' = [call EXCEPT !.got.res = "Ok"]
    /\ pc' = "located"
    /\ UNCHANGED <<under_element, ClimbFrame>>

\* a call with a base that finds nothing under it: the base is replaced and
\* locate is called again
Climb ==
    /\ pc = "scoped"
    /\ under_element # 0
    /\ strategy_chain(page, 1, under_element, 1) = 0
    /\ under_element' = climb(LocSelf).under_element
    /\ locator' = <<call.name>>
    /\ call' = [call EXCEPT !.got.climbs = IF @ < MaxClimbs THEN @ + 1 ELSE @]
    /\ UNCHANGED <<curr_elem, pc, ClimbFrame>>

\* the call without a base: the rounds of the document-scope search
DocumentScope ==
    /\ pc = "scoped"
    /\ under_element = 0
    /\ \E s \in {locate_document([LocSelf EXCEPT !.locator = <<call.name>>], page, 1)} :
         /\ curr_elem' = s.curr_elem
         /\ locator' = s.locator
         /\ call' = [call EXCEPT !.got.res = s.res, !.got.msg = s.msg,
                                 !.got.slept = s.slept]
    /\ pc' = "located"
    /\ UNCHANGED <<under_element, ClimbFrame>>

ClimbNext ==
    \/ ScopedFound
    \/ Climb
    \/ DocumentScope

\* locate is a sequential program: its next call is made
ClimbSpec == ClimbInit /\ [][ClimbNext]_vars /\ WF_vars(ClimbNext)

(***************************************************************************)
(* Interpreter::resolve_label.  The page is a chain of elements from the   *)
(* root (node 1) down to the focused element (node depth + 1); it says     *)
(* the focused element's tag and where the one control of the page is:     *)
(* nowhere, inside the focused element, named by its `for` attribute,      *)
(* right after it, or under its j-th ancestor and no lower (<<"under", j>>)*)
(***************************************************************************)
MaxDepth == 7
ControlNode == 100

LabelPages ==
    { [tag |-> t, depth |-> d, control |-> c] :
      t \in {"label", "div"}, d \in 1..MaxDepth,
      c \in {<<"none">>, <<"inside">>, <<"for">>, <<"sibling">>}
             \cup { <<"under", j>> : j \in 1..MaxDepth } }

\* WebElement::parent on the chain: the root has none
ChainParent(e) == IF e > 1 THEN e - 1 ELSE 0

\* query(By::Tag("input")).or(...).first() from the element e: Some(control)
\* when the control is in the subtree of e
ControlUnder(lp, e) ==
    \/ lp.control = <<"inside">>
    \/ lp.control = <<"sibling">> /\ e <= lp.depth
    \/ lp.control[1] = "under" /\ e <= lp.depth + 1 - lp.control[2]

\* resolve_label, the loop `for _ in 0..5` from its given round on
RECURSIVE label_ancestors(_, _, _)
label_ancestors(s, lp, round) ==
    IF round > 5 \/ ChainParent(s.curr_elem) = 0 THEN s
    ELSE The({ IF ControlUnder(lp, s1.curr_elem)
               THEN set_curr_elem(s1, ControlNode, [ok |-> TRUE, el |-> ControlNode])
               ELSE label_ancestors(s1, lp, round + 1) :
               s1 \in {set_curr_elem(s, ChainParent(s.curr_elem),
                                     [ok |-> TRUE, el |-> ChainParent(s.curr_elem)])} })

\* Interpreter::resolve_label
resolve_label(s, lp) ==
    IF lp.tag # "label" THEN s
    ELSE IF lp.control \in {<<"inside">>, <<"for">>, <<"sibling">>}
    THEN set_curr_elem(s, ControlNode, [ok |-> TRUE, el |-> ControlNode])
    ELSE label_ancestors(s, lp, 1)

LabelInit ==
    /\ script = <<>>
    /\ stmts = <<>>
    /\ environment = <<>>
    /\ locator = <<"x">>
    /\ had_error = FALSE
    /\ stmts_since_last_error_handling = <<>>
    /\ tried_again = FALSE
    /\ screenshot_buf = 0
    /\ is_demo = FALSE
    /\ under_element = 0
    /\ result = "none"
    /\ exited = FALSE
    /\ cut = 0
    /\ hist = <<>>
    /\ first = <<>>
    /\ last = NoLast
    /\ any_failed = FALSE
    /\ unhandled = FALSE
    /\ dead_upto = 0
    /\ src = <<>>
    /\ tokens = <<>>
    /\ parsed = NoParse
    /\ call = NoCall
    /\ executor = NoExecutor
    /\ reporter = NoReporter
    /\ page \in { lp \in LabelPages :
                    lp.control[1] = "under" => lp.control[2] <= lp.depth }
    /\ curr_elem = page.depth + 1
    /\ pc = "label"

\* Interpreter::resolve_label, called by click, type and select
ResolveLabel ==
    /\ pc = "label"
    /\ \E s \in {resolve_label([curr_elem |-> curr_elem, is_demo |-> is_demo,
                                tried_again |-> tried_again, res |-> "Ok", msg |-> ""],
                               page)} :
         /\ curr_elem' = s.curr_elem
         /\ call' = [op |-> "resolve_label", name |-> "", value |-> "",
                     before |-> curr_elem, got |-> s.res]
    /\ pc' = "labelled"
    /\ UNCHANGED <<script, stmts, environment, locator, under_element, had_error,
                   stmts_since_last_error_handling, tried_again, screenshot_buf, is_demo,
                   result, exited, cut, hist, first, last, any_failed, unhandled,
                   dead_upto, src, tokens, parsed, page, executor, reporter>>

LabelNext ==
    \/ ResolveLabel

LabelSpec == LabelInit /\ [][LabelNext]_vars

(***************************************************************************)
(* Two interpreters as tasks of one executor thread, each running          *)
(* execute_cmd(Cmd::Locate) in document scope.  Time is counted in ticks   *)
(* of five seconds (the one-second pause of execute_cmd takes one tick).   *)
(* A task that awaits (tokio::time::sleep, a query of the driver) gives    *)
(* the thread back; std::thread::sleep keeps it while the time passes.     *)
(***************************************************************************)
Tasks == {1, 2}
\* the pauses [0, 5, 10, 20, 30] of locate, in ticks
WaitTicks == <<0, 1, 2, 4, 6>>
NewTask == [pc |-> "start", round |-> 0, left |-> 0]

\* the task can go on as soon as it is polled
Ready(t) ==
    \/ executor.tasks[t].pc = "start"
    \/ executor.tasks[t].pc = "pause" /\ executor.tasks[t].left = 0
    \/ executor.tasks[t].pc = "answered"

\* Interpreter::locate, the head of round n of the loop: std::thread::sleep,
\* on the thread, then the first query is awaited
enter_round(ex, t, n) ==
    IF n > Len(WaitTicks)
    THEN [ex EXCEPT !.tasks[t] = [pc |-> "failed", round |-> n - 1, left |-> 0]]
    ELSE IF WaitTicks[n] > 0
    THEN [ex EXCEPT !.thread = t,
                    !.tasks[t] = [pc |-> "backoff", round |-> n, left |-> WaitTicks[n]]]
    ELSE [ex EXCEPT !.tasks[t] = [pc |-> "query", round |-> n, left |-> 0]]

ExecInit ==
    /\ Idle
    /\ environment = <<>>
    /\ tried_again = FALSE
    /\ src = <<>>
    /\ tokens = <<>>
    /\ parsed = NoParse
    /\ call = NoCall
    /\ page = NoPage
    /\ pc = "exec"
    /\ executor = [thread |-> 0, tasks |-> [t \in Tasks |-> NewTask]]
    /\ reporter = NoReporter

ExecRest ==
    <<IdleVars, environment, tried_again, pc, src, tokens, parsed, call, page,
      reporter>>

\* the executor polls a ready task, which runs up to its next await:
\* execute_cmd starts its tokio sleep, or locate enters its first round, or
\* a round that found nothing is followed by the next
Poll(t) ==
    /\ executor.thread = 0
    /\ Ready(t)
    /\ executor' =
         CASE executor.tasks[t].pc = "start" ->
                 [executor EXCEPT !.tasks[t] = [pc |-> "pause", round |-> 0, left |-> 1]]
           [] executor.tasks[t].pc = "pause" -> enter_round(executor, t, 1)
           [] executor.tasks[t].pc = "answered" ->
                 enter_round(executor, t, executor.tasks[t].round + 1)
    /\ UNCHANGED ExecRest

\* std::thread::sleep returns: the round's queries are awaited
Wake(t) ==
    /\ executor.thread = t
    /\ executor.tasks[t].pc = "backoff"
    /\ executor.tasks[t].left = 0
    /\ executor' = [executor EXCEPT !.thread = 0, !.tasks[t].pc = "query"]
    /\ UNCHANGED ExecRest

\* the driver answers the queries of a round: a match, or none
Answer(t) ==
    /\ executor.tasks[t].pc = "query"
    /\ \E found \in BOOLEAN :
         executor' = [executor EXCEPT
                         !.tasks[t].pc = IF found THEN "done" ELSE "answered"]
    /\ UNCHANGED ExecRest

\* five seconds pass, for the timers and for the sleeping thread alike
Tick ==
    /\ \A t \in Tasks : ~(executor.thread = 0 /\ Ready(t))
    /\ \A t \in Tasks : ~(executor.thread = t /\ executor.tasks[t].left = 0)
    /\ \E t \in Tasks : executor.tasks[t].left > 0
    /\ executor' = [executor EXCEPT
                      !.tasks = [t \in Tasks |->
                                   [@[t] EXCEPT !.left = IF @ > 0 THEN @ - 1 ELSE 0]]]
    /\ UNCHANGED ExecRest

ExecNext ==
    \/ \E t \in Tasks : Poll(t)
    \/ \E t \in Tasks : Wake(t)
    \/ \E t \in Tasks : Answer(t)
    \/ Tick

ExecSpec == ExecInit /\ [][ExecNext]_vars

(***************************************************************************)
(* Properties.                                                             *)
(***************************************************************************)
Top == stmts[Len(stmts)]
HasTryAgain(st) == \E i \in DOMAIN st.cs : st.cs[i].op = "TryAgain"
CatchLines == { i \in DOMAIN script : script[i].kind = "CatchErr" }
\* line k is the only catch-error line, its handler ends in try-again, and a
\* statement stands before it
OneRetryLine(k) == CatchLines = {k} /\ HasTryAgain(script[k]) /\ k > 1
Returned == pc = "done"

\* C1: for every script and every pattern of successes and failures,
\* interpret terminates: the loop ends, with the stack empty or on a terminal
\* failure.  (A run that leaves the window of the model counts as ended.)
C1_Terminates == <>(pc \in {"done", "cut"})

\* C2: with exactly one catch-error line k whose handler performs try-again,
\* when the statement before it fails on its first attempt and again on the
\* replay, the run has stopped on a terminal failure and that statement was
\* attempted exactly twice.
FailedTwice(k) ==
    /\ OneRetryLine(k)
    /\ Len(hist[k - 1]) >= 2
    /\ hist[k - 1][1] # "Ok"
    /\ hist[k - 1][2] # "Ok"
C2_TwoAttemptsThenStop ==
    \A k \in DOMAIN script :
        FailedTwice(k) =>
            /\ hist[k - 1] = <<"Recoverable", "Exit">>
            /\ exited
            /\ pc \in {"end", "done"}
C2_Witness == \E k \in DOMAIN script : FailedTwice(k) /\ Returned

\* C3 as claimed: with exactly one catch-error line k whose handler performs
\* try-again, when the statement before it failed and then succeeded on the
\* replay, the run continues past line k in Normal mode with tried_again
\* false: line k+1 is first taken with both flags false (or, when k is the
\* last line, the run ends with both flags false and without a terminal stop).
Replayed(k) ==
    /\ OneRetryLine(k)
    /\ Len(hist[k - 1]) >= 2
    /\ hist[k - 1][1] # "Ok"
    /\ hist[k - 1][2] = "Ok"
ContinuesNormally(k) ==
    IF k < Len(script)
    THEN first[k + 1] = <<[mode |-> FALSE, tried |-> FALSE]>>
    ELSE ~exited /\ ~had_error /\ ~tried_again
AllReplaysOk(k) ==
    \A i \in 1..(k - 1) : \A j \in DOMAIN hist[i] :
        (i = k - 1 /\ j = 1) \/ hist[i][j] = "Ok"
C4_AtMostTwice == \A i \in DOMAIN hist : Len(hist[i]) <= 2

\* C5: when a statement replayed by try-again fails again and the run stops
\* on that terminal failure, interpret returns Ok(true) (if it returns a
\* value at all: closing the window may fail).
C5_TerminalFailureReported ==
    ( /\ Returned
      /\ exited
      /\ last.line # 0
      /\ Len(hist[last.line]) >= 2
      /\ hist[last.line][1] # "Ok" )
    => result \in {"Ok(true)", "Err"}

\* C6: whenever interpret returns a value, it is Ok(false) if no statement
\* of the run failed, and Ok(true) if the stack drained while a failure was
\* still outstanding (returned, and no catch-error handler ran after it).
C6_ReturnValue ==
    (Returned /\ result # "Err") =>
        /\ ~any_failed => result = "Ok(false)"
        /\ (~exited /\ unhandled) => result = "Ok(true)"
C6_Witness == Returned /\ ~exited /\ unhandled /\ result = "Ok(true)" /\ Len(script) > 1

\* C7: a catch-error statement taken in Normal mode empties the replay
\* buffer and changes nothing else: no command runs, the statement succeeds,
\* and had_error, tried_again, the environment, the focused element and the
\* rest of the pending stack stay as they are.
C7_DeadCatchOnlyClears ==
    [][ (pc = "loop" /\ stmts # <<>> /\ Top.kind = "CatchErr" /\ ~had_error) =>
          /\ stmts_since_last_error_handling' = <<>>
          /\ last'.ran = <<>>
          /\ last'.res = "Ok"
          /\ had_error' = had_error
          /\ tried_again' = tried_again
          /\ environment' = environment
          /\ curr_elem' = curr_elem
          /\ under_element' = under_element
          /\ stmts' = SubSeq(stmts, 1, Len(stmts) - 1) ]_vars
C7_Witness ==
    /\ last.kind = "CatchErr" /\ ~last.mode
    /\ stmts_since_last_error_handling = <<>>
    /\ tried_again /\ curr_elem # 0

\* C8: once a catch-error line has been reached with no error pending, no
\* later try-again re-queues a statement that stands before that line.
C8_NoReplayAcrossDeadCatch ==
    \A i \in DOMAIN last.requeued :
        last.requeued[i].line = 0 \/ last.requeued[i].line >= dead_upto

\* C9 as claimed: an `if locate L then click` statement never returns an
\* error to the loop and never changes had_error.
IfProbe == last.kind = "If" /\ last.ran # <<>> /\ last.ran[1].op = "Locate"
C9_AsClaimed == IfProbe => (last.res = "Ok" /\ had_error = last.mode)

\* C9 amended: it returns an error, or changes had_error, only when the
\* locate succeeded and the click then failed; when the locate fails it
\* returns no error and leaves had_error alone.
C9_IfFailsOnlyInThenBranch ==
    (IfProbe /\ (last.res # "Ok" \/ had_error # last.mode)) =>
        /\ Len(last.ran) = 2
        /\ last.ran[1].ok
        /\ last.ran[2] = [op |-> "Click", ok |-> FALSE]
C9_Witness ==
    /\ IfProbe /\ ~last.ran[1].ok
    /\ last.res = "Ok" /\ ~had_error
    /\ environment["v"] # <<>>

\* C10: an If statement runs its then-branch exactly when its condition
\* succeeds; a failing condition is swallowed, also while tried_again is
\* set: no then-branch command runs, had_error stays and the statement
\* succeeds.
C10_IfRunsThenIffCondition ==
    (last.kind = "If" /\ ~last.mode) =>
        /\ last.ran # <<>>
        /\ (Len(last.ran) > 1) <=> last.ran[1].ok
        /\ ~last.ran[1].ok => (last.res = "Ok" /\ ~had_error /\ ~exited)
C10_Witness ==
    /\ last.kind = "If" /\ ~last.mode /\ last.tried
    /\ ~last.ran[1].ok
    /\ last.res = "Ok"

\* C11: while had_error is true, a statement other than a catch-error line
\* runs no command and leaves the environment, the focused element, the
\* scope base, tried_again and had_error as they are: it is only added to the
\* replay buffer.
C11_SkippedInErrorSync ==
    [][ (pc = "loop" /\ stmts # <<>> /\ had_error /\ Top.kind # "CatchErr") =>
          /\ last'.ran = <<>>
          /\ last'.res = "Ok"
          /\ environment' = environment
          /\ curr_elem' = curr_elem
          /\ under_element' = under_element
          /\ tried_again' = tried_again
          /\ had_error'
          /\ stmts' = SubSeq(stmts, 1, Len(stmts) - 1) ]_vars
C11_Witness ==
    /\ last.mode /\ last.kind = "SetVariable"
    /\ environment["v"] = <<>>
    /\ had_error

\* C12: after a catch-error handler has been executed in ErrorSync mode and
\* the loop goes on, had_error is false, whether the handler's command chain
\* succeeded or failed.
C12_NormalAfterHandler ==
    (last.kind = "CatchErr" /\ last.mode /\ ~exited) => ~had_error

\* C13: when the command chain of a catch-error handler fails, the failure
\* is terminal: the loop is left at once.
C13_HandlerFailureStops ==
    (last.kind = "CatchErr" /\ last.mode /\ last.res # "Ok") =>
        (exited /\ pc \in {"end", "done"})

\* C14: after an Under or UnderActiveElement statement was executed, the
\* scope base under_element is None, whether its command chain succeeded or
\* failed.
C14_ScopeClearedAfterUnder ==
    (last.kind \in {"Under", "UnderActiveElement"} /\ ~last.mode) =>
        under_element = 0

\* C16: referencing an undefined variable is a recoverable error in every
\* state, also while tried_again is set: the statement fails with "Variable
\* is not yet defined", had_error becomes true and the loop is not left.
UndefinedVariable == last.res # "Ok" /\ last.msg = "Variable is not yet defined"
C16_UndefinedVariableRecoverable ==
    UndefinedVariable => (last.res = "Recoverable" /\ had_error /\ ~exited)

\* C17 as claimed: the commands of a chain run in order, no command runs
\* after a failing one, and after a failing chain the loop goes on taking
\* statements.
Chain == script[last.line].cs
RanInOrder ==
    /\ last.ran # <<>>
    /\ Len(last.ran) <= Len(Chain)
    /\ \A i \in DOMAIN last.ran :
          /\ last.ran[i].op = Chain[i].op
          /\ i < Len(last.ran) => last.ran[i].ok
    /\ Len(last.ran) < Len(Chain) => ~last.ran[Len(last.ran)].ok
    /\ (last.res = "Ok") <=> last.ran[Len(last.ran)].ok
ChainRun == last.kind = "Cmd" /\ ~last.mode
C17_AsClaimed ==
    ChainRun => (RanInOrder /\ (last.res # "Ok" => ~exited))

\* C17 amended: the same, except that a failure while tried_again is set is
\* terminal: the loop goes on after a failing chain exactly when tried_again
\* was false.
C17_ChainShortCircuits ==
    ChainRun => (RanInOrder /\ (last.res # "Ok" => (exited <=> last.tried)))
C17_Witness ==
    /\ ChainRun /\ Len(Chain) = 2
    /\ last.ran = <<[op |-> "Locate", ok |-> FALSE]>>
    /\ ~exited /\ pc = "loop" /\ stmts # <<>>

\* C15: set_variable(n, v) makes get_variable(n) return v whatever n held
\* before, and changes no other name; get_variable returns the value held and
\* leaves the store alone; so after a save of X as n the parameter n resolves
\* to X, and resolving never fails for a name that is set.
C15_EnvironmentContract ==
    /\ call.op = "set" =>
          /\ env_get_variable(environment, call.name) = <<call.value>>
          /\ \A m \in EnvNames \ {call.name} : environment[m] = call.before[m]
          /\ resolve(EnvSelf, Variable(call.name)).ok
          /\ resolve(EnvSelf, Variable(call.name)).val = call.value
    /\ call.op = "get" =>
          /\ environment = call.before
          /\ call.got = call.before[call.name]
    /\ (call.op = "resolve" /\ call.value = "Variable") =>
          /\ environment = call.before
          /\ call.got.ok <=> call.before[call.name] # <<>>
          /\ call.got.ok => <<call.got.val>> = call.before[call.name]
C15_Witness ==
    /\ call.op = "set"
    /\ call.before[call.name] \notin {<<>>, <<call.value>>}
    /\ \E m \in EnvNames \ {call.name} : environment[m] # <<>>

\* the lines the parser found malformed (parse_stmt returned Err)
FailedLines == { i \in DOMAIN parsed.lines : parsed.lines[i] = "Err" }

\* C18: whenever a line fails to parse, Parser::parse yields an error; a
\* statement list is never handed back with the failing lines left out.
\* (When parse has returned, what it hands back is the list parsed.stmts.)
C18_NoLineSilentlyDropped ==
    pc = "parsed" => FailedLines = {}

\* C19: for every token stream the scanner produces, parse returns without
\* panicking, and it has gone through every line of the tokens.
C19_ParseNeverPanics ==
    /\ pc # "panic"
    /\ pc = "parsed" =>
          Len(parsed.lines) = Cardinality({ i \in DOMAIN tokens : tokens[i].tt = "Eol" })

\* C20: the text Display renders for a statement the parser produced scans
\* and parses to that one statement again, and the resume marker renders to
\* the empty string.
C20_RenderRoundTrip ==
    /\ call.op = "render" =>
          /\ call.got.state = "done"
          /\ call.got.stmts = <<call.before>>
    /\ DisplayStmt(SetTryAgainFieldToFalse) = <<>>

\* the scan has returned
Scanned == pc \in {"parse", "parsed", "panic"}
\* the tokens made while the scanner was on line i of the source
LineTokens(i) == SelectSeq(tokens, LAMBDA t : t.line = i /\ t.tt # "Eof")

\* C21: the token list Scanner::scan returns ends in an end-of-file token,
\* holds no other end-of-file token, and for an empty source is that one
\* token alone.
C21_EndsInOneEof ==
    Scanned =>
       /\ tokens # <<>>
       /\ tokens[Len(tokens)].tt = "Eof"
       /\ \A j \in 1..(Len(tokens) - 1) : tokens[j].tt # "Eof"
       /\ (\A i \in DOMAIN src : Trim(src[i]) = <<>>) => Len(tokens) = 1
C21_Witness ==
    /\ pc = "parse"
    /\ Len(src) = 2
    /\ Trim(src[1]) = <<>>
    /\ Len(tokens) > 3

\* the positions of the double quotes of a line
QuotePos(line) == { i \in DOMAIN line : line[i] = Quote }
Lo(S) == CHOOSE i \in S : \A j \in S : i <= j
Hi(S) == CHOOSE i \in S : \A j \in S : j <= i
\* the line is not a comment and holds one quoted literal, written as
\* several space-separated pieces between words
SpreadLiteral(line) ==
    /\ Trim(line) # <<>> /\ Head(Trim(line)) # Hash
    /\ Cardinality(QuotePos(line)) = 2
    /\ Lo(QuotePos(line)) = 1 \/ line[Lo(QuotePos(line)) - 1] = Space
    /\ Hi(QuotePos(line)) = Len(line) \/ line[Hi(QuotePos(line)) + 1] = Space
    /\ \E k \in Lo(QuotePos(line))..Hi(QuotePos(line)) : line[k] = Space
\* the number of pieces split(' ') makes of the trimmed text
PieceCount(text) ==
    IF Trim(text) = <<>> THEN 0
    ELSE 1 + Cardinality({ i \in DOMAIN Trim(text) : Trim(text)[i] = Space })

\* C22: a quoted literal written as several space-separated pieces of one
\* line becomes one string-literal token holding the text between the
\* quotes, and no piece inside the quotes becomes a token of its own.
C22_SpreadLiteralIsOneToken ==
    Scanned =>
       \A i \in DOMAIN src :
          SpreadLiteral(src[i]) =>
             /\ SelectSeq(LineTokens(i), LAMBDA t : t.tt = "StringLiteral")
                  = <<[tt |-> "StringLiteral", line |-> i,
                       lexeme |-> SubSeq(src[i], Lo(QuotePos(src[i])) + 1,
                                                 Hi(QuotePos(src[i])) - 1)]>>
             /\ Len(LineTokens(i))
                  = PieceCount(SubSeq(src[i], 1, Lo(QuotePos(src[i])) - 1)) + 1
                    + PieceCount(SubSeq(src[i], Hi(QuotePos(src[i])) + 1, Len(src[i]))) + 1

\* C23: a blank line gives no token; any other line gives a group of tokens
\* ending in its one end-of-line token; a comment line gives the comment
\* token holding the line and the end-of-line token; tokens carry the
\* 1-based number of the line they were made on, in the order of the lines.
C23_LineGroups ==
    Scanned =>
       /\ \A j \in DOMAIN tokens : tokens[j].tt # "Eof" => tokens[j].line \in DOMAIN src
       /\ \A j \in 1..(Len(tokens) - 1) : tokens[j].line <= tokens[j + 1].line
       /\ \A i \in DOMAIN src :
             IF Trim(src[i]) = <<>> THEN LineTokens(i) = <<>>
             ELSE /\ LineTokens(i) # <<>>
                  /\ \A j \in DOMAIN LineTokens(i) :
                        LineTokens(i)[j].tt = "Eol" <=> j = Len(LineTokens(i))
                  /\ Head(Trim(src[i])) = Hash =>
                        LineTokens(i) = <<[tt |-> "Comment", line |-> i, lexeme |-> src[i]],
                                          [tt |-> "Eol", line |-> i, lexeme |-> <<"EOL">>]>>
C23_Witness ==
    /\ pc = "parse"
    /\ Len(src) = 2
    /\ Trim(src[1]) = <<>>
    /\ Head(src[2]) = Space /\ Trim(src[2]) # <<>> /\ Head(Trim(src[2])) = Hash

\* a locate has been made, and its parameter could be resolved
Located == call.op = "locate"
Resolved == call.value = "String" \/ call.before.environment[call.name] # <<>>
InDocument == Located /\ Resolved /\ call.before.under_element = 0
\* the nodes in the page at an attempt that answer to a strategy, from base
Candidates(at, base, strategy) ==
    { e \in Nodes : /\ page.since[e] <= at
                    /\ strategy \in page.by[e]
                    /\ base = 0 \/ Within(e, base) }
Visible(S) == { e \in S : page.shown[e] }
\* the order of the strategies, as stated
Order ==
    <<"PlaceholderEq", "PlaceholderContains", "TextEq", "TextContains", "Title",
      "AriaLabel", "Id", "Name", "Class", "Tag", "XPath">>
\* some query of the chain has something to return
HasMatch(at, base) ==
    \E i \in DOMAIN Order :
       IF Order[i] = "XPath" THEN Candidates(at, base, Order[i]) # {}
       ELSE Visible(Candidates(at, base, Order[i])) # {}
\* the first strategy of the order that has a displayed match
WithDisplayed(at) == { i \in DOMAIN Order : Visible(Candidates(at, 0, Order[i])) # {} }
Winner(at) == Order[Least(WithDisplayed(at))]

Containing == Visible({ e \in Nodes : page.since[e] = 1 /\ "Contents" \in page.by[e] })

\* C25: in document scope, when none of the eleven strategies matches but a
\* displayed element's full contents contain the text, locate succeeds and
\* resolves to the last such element.
C25_ContentsFallback ==
    (InDocument /\ (\A at \in 1..5 : ~HasMatch(at, 0)) /\ Containing # {}) =>
       /\ call.got.res = "Ok"
       /\ curr_elem = CHOOSE e \in Containing : \A f \in Containing : f <= e

\* C26: a document-scope locate makes at most five attempts, after the
\* pauses 0, 5, 10, 20, 30; it returns at the first attempt that finds a
\* match, and when none does it fails with "Could not locate the element",
\* recoverable unless tried_again is set, and the focused element stays.
C26_FiveAttempts ==
    InDocument =>
       /\ Len(call.got.slept) \in 1..5
       /\ call.got.slept = SubSeq(<<0, 5, 10, 20, 30>>, 1, Len(call.got.slept))
       /\ \A at \in 1..(Len(call.got.slept) - 1) : ~HasMatch(at, 0)
       /\ call.got.res = "Ok" <=> HasMatch(Len(call.got.slept), 0)
       /\ call.got.res # "Ok" =>
             /\ Len(call.got.slept) = 5
             /\ call.got.msg = "Could not locate the element"
             /\ call.got.res = IF tried_again THEN "Exit" ELSE "Recoverable"
             /\ curr_elem = call.before.curr_elem
C26_Witness ==
    /\ InDocument
    /\ call.got.res = "Ok"
    /\ call.got.slept = <<0, 5, 10, 20, 30>>
    /\ call.before.curr_elem # curr_elem

\* C27: with a base set, locate matches descendants of the base only; when
\* nothing under the base matches and something under its parent does, the
\* base becomes the parent and the element found is inside the parent.
C27_ScopedThenOneLevelUp ==
    (Located /\ Resolved /\ call.before.under_element # 0) =>
       /\ HasMatch(1, call.before.under_element) =>
             /\ call.got.res = "Ok"
             /\ under_element = call.before.under_element
             /\ Within(curr_elem, call.before.under_element)
       /\ (/\ ~HasMatch(1, call.before.under_element)
           /\ DocParent(call.before.under_element) # 0
           /\ HasMatch(1, DocParent(call.before.under_element))) =>
             /\ call.got.res = "Ok"
             /\ under_element = DocParent(call.before.under_element)
             /\ Within(curr_elem, under_element)
             /\ ~Within(curr_elem, call.before.under_element)
C27_Witness ==
    /\ Located /\ Resolved
    /\ call.before.under_element = 3
    /\ page.by[6] # {} /\ page.by[5] = {"Title"}
    /\ under_element = 2
    /\ curr_elem = 5

\* C29: the stored locator is the string of the last locate that succeeded:
\* a locate that fails, or whose parameter cannot be resolved, leaves it as
\* it was.
C29_LocatorOfLastSuccess ==
    Located =>
       IF call.got.res = "Ok" THEN locator = <<"x">>
       ELSE locator = call.before.locator

\* none of the steps of resolve_label finds a control: there is none, or it
\* is under an ancestor beyond the fifth
NoControlFound ==
    \/ page.control = <<"none">>
    \/ page.control[1] = "under" /\ page.control[2] > 5

\* C28: when the focused element is a label and no redirection step finds a
\* control, the focused element after resolve_label is the label still.
C28_LabelStaysFocused ==
    (call.op = "resolve_label" /\ page.tag = "label" /\ NoControlFound) =>
       curr_elem = call.before

\* the task is waiting in the backoff of locate
InBackoff(t) == executor.tasks[t].pc = "backoff" /\ executor.tasks[t].left > 0

\* C30: while one interpreter waits in the backoff of locate, another task
\* of the same thread that is ready can be polled: the wait does not keep
\* the thread.
C30_BackoffLeavesThreadFree ==
    \A a \in Tasks, b \in Tasks :
       (a # b /\ InBackoff(a) /\ Ready(b)) => ENABLED Poll(b)

(***************************************************************************)
(* The report and the replay of statements (ReplaySpec).                   *)
(***************************************************************************)
\* the screenshots a statement's commands took: its Screenshot commands that
\* succeeded
Captured(ran) == Len(SelectSeq(ran, LAMBDA r : r.op = "Screenshot" /\ r.ok))

\* C31: with a reporter attached, every iteration of the loop appends one
\* record to the report and changes nothing else of it: the record holds the
\* rendered text of the statement taken from the stack, its error if it
\* failed, and the screenshots its commands captured; no other step touches
\* the report, and the screenshot buffer is empty after every statement.
C31_OneRecordPerStatement ==
    [][ IF pc = "loop" /\ stmts # <<>>
        THEN /\ reporter' = <<Append(reporter[1],
                                [text |-> DisplayStmt(Top),
                                 error |-> IF last'.res = "Ok" THEN <<>> ELSE <<last'.msg>>,
                                 screenshots |-> Captured(last'.ran)])>>
             /\ screenshot_buf' = 0
        ELSE reporter' = reporter /\ screenshot_buf' = screenshot_buf ]_vars

\* a report of a failed statement, a handler's record with its screenshot
\* and the record of the resume marker
C31_Witness ==
    /\ reporter # NoReporter
    /\ \E i, j, k \in DOMAIN reporter[1] :
          /\ i < j /\ j < k
          /\ reporter[1][i].error # <<>>
          /\ reporter[1][j].screenshots = 1
          /\ reporter[1][k].text = <<>>

\* the last iteration ran try-again and the loop goes on with the whole
\* stack in view
JustRequeued ==
    /\ pc = "loop"
    /\ cut = 0
    /\ last.requeued # <<>>
    /\ Len(stmts) > Len(last.requeued)

\* C32: after try-again the re-queued statements are next on the pending
\* stack in the order in which they were first taken (the first of them on
\* top), and the resume marker lies right below them.
C32_ReplayInOriginalOrder ==
    JustRequeued =>
        /\ \A i \in DOMAIN last.requeued :
              stmts[Len(stmts) + 1 - i] = last.requeued[i]
        /\ stmts[Len(stmts) - Len(last.requeued)] = SetTryAgainFieldToFalse

\* C33: an iteration of the loop on a statement other than a catch-error
\* line appends that statement to the replay buffer once, whatever the mode.
C33_BufferedOnce ==
    [][ (pc = "loop" /\ stmts # <<>> /\ Top.kind # "CatchErr")
          => stmts_since_last_error_handling'
                = Append(stmts_since_last_error_handling, Top) ]_vars

\* line k is a catch-error line without try-again whose handler ran in
\* ErrorSync mode and succeeded
HandledAt(k) ==
    /\ k \in CatchLines
    /\ ~HasTryAgain(script[k])
    /\ first[k] # <<>> /\ first[k][1].mode
    /\ hist[k] # <<>> /\ hist[k][1] = "Ok"

\* C34: when the handler of a catch-error line runs try-again, no statement
\* it re-queues is a line of the script up to an earlier catch-error line
\* whose handler ran in ErrorSync mode.
C34_HandledCatchEndsBlock ==
    (last.kind = "CatchErr" /\ last.mode /\ last.requeued # <<>>) =>
        \A k \in 1..(last.line - 1) :
            HandledAt(k) =>
                \A i \in DOMAIN last.requeued :
                    last.requeued[i].line = 0 \/ last.requeued[i].line > k

\* C35: an iteration whose statement fails while tried_again is set ends
\* the loop, and once the loop has ended that way nothing more is taken from
\* the pending stack, executed or recorded.
C35_TerminalFailureStops ==
    [][ /\ (pc = "loop" /\ last'.res # "Ok" /\ tried_again')
            => (pc' = "end" /\ exited')
        /\ (exited /\ pc \in {"end", "done"})
            => UNCHANGED <<stmts, reporter, hist, last, had_error, tried_again,
                           stmts_since_last_error_handling, environment,
                           curr_elem, screenshot_buf, exited>> ]_vars

\* a run that stopped on a failure of the replay with statements pending
C35_Witness ==
    /\ pc = "done"
    /\ exited
    /\ last.res = "Exit"
    /\ last.tried
    /\ stmts # <<>>
    /\ Len(reporter[1]) >= 3

\* C36: the marker that is about to clear tried_again is the one the most
\* recent try-again pushed, below everything that try-again re-queued: no
\* other marker, and so no statement re-queued with it, is still pending
\* under it.
C36_OnlyOwnMarkerClears ==
    (pc = "loop" /\ stmts # <<>> /\ tried_again
       /\ Top.kind = "SetTryAgainFieldToFalse")
      => \A i \in 1..(Len(stmts) - 1) : stmts[i].kind # "SetTryAgainFieldToFalse"

\* C39: whenever the loop is about to take a statement, had_error and
\* tried_again are not both set; an iteration in ErrorSync mode that sets
\* tried_again leaves ErrorSync mode or ends the loop.
C39_NotBothFlags ==
    [][ (pc = "loop" /\ stmts # <<>>) =>
          /\ ~(had_error /\ tried_again)
          /\ (had_error /\ tried_again')
                => (~had_error' \/ (pc' = "end" /\ exited')) ]_vars

\* the handler of a catch-error line has run try-again and the loop goes on
C39_Witness ==
    /\ pc = "loop"
    /\ stmts # <<>>
    /\ last.kind = "CatchErr"
    /\ last.mode
    /\ last.requeued # <<>>
    /\ tried_again
    /\ ~had_error

(***************************************************************************)
(* The front end once more (FrontSpec).                                    *)
(***************************************************************************)
\* the token groups Parser::parse goes through, one per line
Groups == Pieces(tokens, { i \in DOMAIN tokens : tokens[i].tt = "Eol" })

\* C37: a line whose statement the parser returned was consumed whole: the
\* statement ends where the line's tokens end.
C37_WholeLineConsumed ==
    pc = "parsed" =>
        \A i \in DOMAIN parsed.lines :
            parsed.lines[i] = "Ok"
              => parse_stmt(Parser(Groups[i])).index = Len(Groups[i])

\* the tokens of a line scanned as a source of its own, numbered as line i
AloneTokens(line, i) ==
    The({ [j \in 1..(Len(alone) - 1) |-> [alone[j] EXCEPT !.line = i]] :
          alone \in {scan(<<line>>)} })

\* C38: the tokens made on a line are those the same line gives when it is
\* scanned alone: nothing of the lines before it, an unterminated quote
\* included, changes them.
C38_LineScannedAlone ==
    Scanned => \A i \in DOMAIN src : LineTokens(i) = AloneTokens(src[i], i)

(***************************************************************************)
(* The scoped locate (ClimbSpec).                                          *)
(***************************************************************************)
\* C40: a scoped locate ends: the base is replaced at most as many times as
\* there are elements from the root down to the first base; without a base
\* the document is searched in at most five rounds, and then the locate has
\* returned.
C40_ScopedLocateTerminates ==
    /\ [](call.got.climbs <= Depth(call.before))
    /\ [](pc = "located" => Len(call.got.slept) <= Len(Waits))
    /\ [](call.got.slept # <<>> => under_element = 0)
    /\ (pc = "scoped") ~> (pc = "located")

\* the base was replaced up to the root and beyond, and the search of the
\* document found nothing either
C40_Witness ==
    /\ pc = "located"
    /\ call.before = 3
    /\ call.got.climbs = 3
    /\ under_element = 0
    /\ Len(call.got.slept) = 5
    /\ call.got.res = "Recoverable"
====
